---- MODULE Spec2Model ----
(***************************************************************************)
(* Routing and clearance-validation kernel of the utility-network layout   *)
(* editor: the distance validator (distance-validator.ts), the trace       *)
(* service and its HTTP handler (traces-service.ts, traces-api.ts) and the *)
(* path builders of the map client (App.tsx).                              *)
(*                                                                         *)
(* Numbers.  The program computes in IEEE doubles.  Here a number is an    *)
(* exact fraction [n, d] in lowest terms with d > 0; the record with d = 0 *)
(* stands for the non-finite values (NaN, Infinity).  Coordinates are      *)
(* counted in grid units of 1/METERS_PER_DEG_LAT degree, so that one unit  *)
(* of latitude is one metre, measured from a reference parallel.           *)
(* Math.sqrt is exact on the squares of fractions; a distance that is not  *)
(* such a square is carried as its square (see distancePointToSegment).    *)
(***************************************************************************)
EXTENDS Integers, Naturals, Sequences, FiniteSets, TLC

VARIABLES
    system_distances,   \* rows of table system_distances, in the order a scan returns them
    traces,             \* committed rows of table traces
    newTrace,           \* validateTraceDistance: the candidate argument
    existingTraces,     \* validateTraceDistance: the existing-routes argument
    validation,         \* validateTraceDistance: the returned {valid, errors}
    reverse,            \* the result of validating an existing route against the candidate
    pc,                 \* POST /api/traces: position of each request
    req,                \* POST /api/traces: the request body of each request
    tx,                 \* createTrace: the locals of each call
    poolFree,           \* pg Pool: connections not checked out
    nextId,             \* sequence traces_id_seq
    response,           \* POST /api/traces: the HTTP response of each request
    routeArgs,          \* path builder: the arguments
    routePath,          \* path builder: the returned path
    updateResult,       \* updateTrace: what the last call returned
    offsetResult,       \* dual-line rendering: the two offset paths
    ui                  \* App in trace mode: the state handleMapClick reads and sets

vars == <<system_distances, traces, newTrace, existingTraces, validation, reverse,
          pc, req, tx, poolFree, nextId, response, routeArgs, routePath,
          updateResult, offsetResult, ui>>

(***************************************************************************)
(* Exact fractions                                                         *)
(***************************************************************************)
Abs(x) == IF x < 0 THEN -x ELSE x

RECURSIVE GCD(_, _)
GCD(a, b) == IF b = 0 THEN a ELSE GCD(b, a % b)

NonFinite == [n |-> 0, d |-> 0]

Rat(n, d) ==
    IF d = 0 THEN NonFinite
    ELSE LET g == GCD(Abs(n), Abs(d))
             s == IF d < 0 THEN -1 ELSE 1
         IN  [n |-> (s * n) \div g, d |-> (s * d) \div g]

Num(k) == [n |-> k, d |-> 1]

IsFinite(x) == x.d # 0

\* the operations reduce by the common factors before they multiply, to keep
\* the products small
RAdd(a, b) ==
    IF IsFinite(a) /\ IsFinite(b)
    THEN LET g == GCD(a.d, b.d)
         IN  Rat(a.n * (b.d \div g) + b.n * (a.d \div g), (a.d \div g) * b.d)
    ELSE NonFinite

RSub(a, b) ==
    IF IsFinite(a) /\ IsFinite(b)
    THEN LET g == GCD(a.d, b.d)
         IN  Rat(a.n * (b.d \div g) - b.n * (a.d \div g), (a.d \div g) * b.d)
    ELSE NonFinite

RMul(a, b) ==
    IF IsFinite(a) /\ IsFinite(b)
    THEN LET g1 == GCD(Abs(a.n), b.d)
             g2 == GCD(Abs(b.n), a.d)
         IN  Rat((a.n \div g1) * (b.n \div g2), (a.d \div g2) * (b.d \div g1))
    ELSE NonFinite

RDiv(a, b) ==
    IF IsFinite(a) /\ IsFinite(b)
    THEN IF b.n = 0 THEN NonFinite
         ELSE LET g1 == GCD(Abs(a.n), Abs(b.n))
                  g2 == GCD(b.d, a.d)
              IN  Rat((a.n \div g1) * (b.d \div g2), (a.d \div g2) * (b.n \div g1))
    ELSE NonFinite

RNeg(a)    == IF IsFinite(a) THEN [n |-> -a.n, d |-> a.d] ELSE NonFinite
RLt(a, b)  ==
    /\ IsFinite(a)
    /\ IsFinite(b)
    /\ LET g == GCD(a.d, b.d) IN a.n * (b.d \div g) < b.n * (a.d \div g)
RGt(a, b)  == RLt(b, a)
REq(a, b)  == IsFinite(a) /\ IsFinite(b) /\ a = b
RIsZero(a) == IsFinite(a) /\ a.n = 0

\* floor(sqrt(y)) for a natural y, by bisection of lo..hi
RECURSIVE Bisect(_, _, _)
Bisect(y, lo, hi) ==
    IF lo >= hi THEN lo
    ELSE LET mid == (lo + hi + 1) \div 2
         IN  IF mid * mid <= y THEN Bisect(y, mid, hi) ELSE Bisect(y, lo, mid - 1)

ISqrt(y) == Bisect(y, 0, IF y < 46340 THEN y ELSE 46340)

IsSquare(y) == ISqrt(y) * ISqrt(y) = y

\* Math.sqrt on a fraction whose numerator and denominator are squares
RHasSqrt(a) == IsFinite(a) /\ a.n >= 0 /\ IsSquare(a.n) /\ IsSquare(a.d)
RSqrt(a) == IF RHasSqrt(a) THEN [n |-> ISqrt(a.n), d |-> ISqrt(a.d)] ELSE NonFinite

(***************************************************************************)
(* Metric frame                                                            *)
(***************************************************************************)
SystemType == {"water", "sewerage", "storm", "heating", "power", "telecom"}

METERS_PER_DEG_LAT == 111320

\* grid units per degree: one unit of latitude is one metre
UnitsPerDeg == METERS_PER_DEG_LAT

\* metres per grid unit of latitude
metersPerUnitLat == Num(METERS_PER_DEG_LAT \div UnitsPerDeg)

\* the parallel, in grid units, at which the cosine table changes value
BandSplit == 2

\* Math.cos((lat * Math.PI) / 180): a decreasing step function of the latitude,
\* 3/5 south of BandSplit and 1/2 from BandSplit northwards
cosLat(lat) == IF RLt(lat, Num(BandSplit)) THEN Rat(3, 5) ELSE Rat(1, 2)

\* metres per grid unit of longitude at latitude lat
metersPerDegLng(lat) == IF IsFinite(lat) THEN RMul(metersPerUnitLat, cosLat(lat)) ELSE NonFinite

Pt(a, b) == [lat |-> Num(a), lng |-> Num(b)]

(***************************************************************************)
(* distance-validator.ts                                                   *)
(***************************************************************************)
\* The returned value is the SQUARE of the distance in metres: the code's
\* Math.sqrt is applied where the distance is compared (distLess) or printed
\* (toFixed2).
distancePointToSegment(point, segStart, segEnd) ==
    LET A == RSub(point.lat, segStart.lat)
        B == RSub(point.lng, segStart.lng)
        C == RSub(segEnd.lat, segStart.lat)
        D == RSub(segEnd.lng, segStart.lng)
        dot == RAdd(RMul(A, C), RMul(B, D))
        lenSq == RAdd(RMul(C, C), RMul(D, D))
        \* Math.sqrt(latDiff * latDiff + lngDiff * lngDiff), squared
        hypotSq(latDiff, lngDiff) == RAdd(RMul(latDiff, latDiff), RMul(lngDiff, lngDiff))
        \* from the clamped parameter to the distance
        closest(param) ==
            LET xx == IF RLt(param, Num(0)) THEN segStart.lat
                      ELSE IF RGt(param, Num(1)) THEN segEnd.lat
                      ELSE RAdd(segStart.lat, RMul(param, C))
                yy == IF RLt(param, Num(0)) THEN segStart.lng
                      ELSE IF RGt(param, Num(1)) THEN segEnd.lng
                      ELSE RAdd(segStart.lng, RMul(param, D))
                dx == RSub(point.lat, xx)
                dy == RSub(point.lng, yy)
                latDiff == RMul(dx, metersPerUnitLat)
                lngDiff == RMul(dy, metersPerDegLng(RDiv(RAdd(point.lat, xx), Num(2))))
            IN  hypotSq(latDiff, lngDiff)
        nonZero(len_sq) == IF ~RIsZero(len_sq) THEN RDiv(dot, len_sq) ELSE Num(-1)
    IN  closest(nonZero(lenSq))

\* dist < minDistance, for dist = Math.sqrt(distSq)
distLess(distSq, minDistance) ==
    /\ RGt(minDistance, Num(0))
    /\ RLt(distSq, RMul(minDistance, minDistance))

\* dist.toFixed(2), for dist = Math.sqrt(distSq), as a number of hundredths
toFixed2(distSq) ==
    LET whole == distSq.n \div distSq.d
        part  == (40000 * (distSq.n % distSq.d)) \div distSq.d
    IN  (ISqrt(40000 * whole + part) + 1) \div 2

\* the rows the SELECT of getMinDistance returns
distanceRows(table, system1, system2) ==
    SelectSeq(table, LAMBDA row :
        \/ (row.system_type_1 = system1 /\ row.system_type_2 = system2)
        \/ (row.system_type_1 = system2 /\ row.system_type_2 = system1))

\* a lookup that answers one metre for a pair without a row
getMinDistanceDefaultOne(table, system1, system2) ==
    LET rows == distanceRows(table, system1, system2)
    IN  IF Len(rows) = 0 THEN Num(1) ELSE Rat(rows[1].min_distance_cm, 100)

\* a lookup that matches the pair in the order given only
getMinDistanceOrdered(table, system1, system2) ==
    LET rows == SelectSeq(table, LAMBDA row :
                    row.system_type_1 = system1 /\ row.system_type_2 = system2)
    IN  IF Len(rows) = 0 THEN Num(0) ELSE Rat(rows[1].min_distance_cm, 100)

\* min_distance_meters is DECIMAL(10, 2), kept in hundredths of a metre
getMinDistance(table, system1, system2) ==
    LET rows == distanceRows(table, system1, system2)
    IN  IF Len(rows) = 0 THEN Num(0) ELSE Rat(rows[1].min_distance_cm, 100)

\* the text of one violation message: the two system names, the printed
\* distance and the printed minimum
message(first, second, distSq, minDistance) ==
    [first |-> first, second |-> second, dist |-> toFixed2(distSq), min |-> minDistance]

\* the two measurements of one pair (candidate segment i, existing segment j)
measureDist(newTrace_, existing, i, j) ==
    distancePointToSegment(newTrace_.path[i], existing.path[j], existing.path[j + 1])

\* a second measurement taken from the end of the existing segment
measureDist2FromEnd(newTrace_, existing, i, j) ==
    distancePointToSegment(existing.path[j + 1], newTrace_.path[i], newTrace_.path[i + 1])

measureDist2(newTrace_, existing, i, j) ==
    distancePointToSegment(existing.path[j], newTrace_.path[i], newTrace_.path[i + 1])

\* the body of the inner loop for one (i, j)
pairErrors(newTrace_, existing, minDistance, i, j) ==
    LET dist  == measureDist(newTrace_, existing, i, j)
        dist2 == measureDist2(newTrace_, existing, i, j)
    IN  (IF distLess(dist, minDistance)
            THEN <<message(newTrace_.system, existing.system, dist, minDistance)>>
            ELSE <<>>)
        \o
        (IF distLess(dist2, minDistance)
            THEN <<message(existing.system, newTrace_.system, dist2, minDistance)>>
            ELSE <<>>)

RECURSIVE innerLoop(_, _, _, _, _)
innerLoop(newTrace_, existing, minDistance, i, j) ==
    IF j > Len(existing.path) - 1 THEN <<>>
    ELSE pairErrors(newTrace_, existing, minDistance, i, j)
         \o innerLoop(newTrace_, existing, minDistance, i, j + 1)

RECURSIVE outerLoop(_, _, _, _)
outerLoop(newTrace_, existing, minDistance, i) ==
    IF i > Len(newTrace_.path) - 1 THEN <<>>
    ELSE innerLoop(newTrace_, existing, minDistance, i, 1)
         \o outerLoop(newTrace_, existing, minDistance, i + 1)

\* a validator that measures nothing
checkExistingNothing(table, newTrace_, existing) == <<>>

\* a validator that also measures the routes of the candidate's own system
\* type, against a rule of one metre
checkExistingOwnSystem(table, newTrace_, existing) ==
    LET minDistance == IF existing.system = newTrace_.system THEN Num(1)
                       ELSE getMinDistance(table, newTrace_.system, existing.system)
    IN  IF RIsZero(minDistance) THEN <<>>
        ELSE outerLoop(newTrace_, existing, minDistance, 1)

\* one iteration of the loop over existingTraces: the errors it pushes
checkExisting(table, newTrace_, existing) ==
    IF existing.system = newTrace_.system THEN <<>>
    ELSE LET minDistance == getMinDistance(table, newTrace_.system, existing.system)
         IN  IF RIsZero(minDistance) THEN <<>>
             ELSE outerLoop(newTrace_, existing, minDistance, 1)

RECURSIVE tracesLoop(_, _, _, _)
tracesLoop(table, newTrace_, existingTraces_, k) ==
    IF k > Len(existingTraces_) THEN <<>>
    ELSE checkExisting(table, newTrace_, existingTraces_[k])
         \o tracesLoop(table, newTrace_, existingTraces_, k + 1)

\* a validator that stops at the first violation
validateTraceDistanceFailFast(table, newTrace_, existingTraces_) ==
    LET errors == tracesLoop(table, newTrace_, existingTraces_, 1)
    IN  [valid |-> Len(errors) = 0,
         errors |-> IF Len(errors) = 0 THEN <<>> ELSE <<errors[1]>>]

validateTraceDistance(table, newTrace_, existingTraces_) ==
    LET errors == tracesLoop(table, newTrace_, existingTraces_, 1)
    IN  [valid |-> Len(errors) = 0, errors |-> errors]

(***************************************************************************)
(* Inputs of the validator                                                 *)
(***************************************************************************)
GridMax == 2

Grid == 0 .. GridMax

GridPoints == {Pt(a, b) : a \in Grid, b \in Grid}

\* App.tsx buildOrthogonalPath: the three-point elbow
buildOrthogonalPath(start, end) ==
    <<start, [lat |-> start.lat, lng |-> end.lng], end>>

TwoPointPaths == {<<a, b>> : a \in GridPoints, b \in GridPoints}

ElbowPaths == {buildOrthogonalPath(Pt(0, 0), Pt(GridMax, GridMax)),
               buildOrthogonalPath(Pt(GridMax, 0), Pt(0, GridMax))}

ShortPaths == {<<>>, <<Pt(0, 0)>>}

CandidateSystems == {"water"}

Candidates == [system : CandidateSystems, path : TwoPointPaths \cup ElbowPaths \cup ShortPaths]

\* routes already stored in the project, in the order of their creation
StoredRoutes ==
    <<[system |-> "water",    path |-> <<Pt(1, 0), Pt(1, GridMax)>>],
      [system |-> "sewerage", path |-> buildOrthogonalPath(Pt(0, 0), Pt(GridMax, GridMax))],
      [system |-> "telecom",  path |-> <<Pt(0, 1), Pt(GridMax, 1)>>],
      [system |-> "power",    path |-> <<Pt(1, 0), Pt(1, GridMax)>>]>>

MaxExisting == 2

\* the elements of q at the positions in S, in the order of q
RECURSIVE Pick(_, _, _)
Pick(q, S, i) ==
    IF i > Len(q) THEN <<>>
    ELSE (IF i \in S THEN <<q[i]>> ELSE <<>>) \o Pick(q, S, i + 1)

\* the selections of at most n rows of q
Selections(q, n) == {Pick(q, S, 1) : S \in {T \in SUBSET (1 .. Len(q)) : Cardinality(T) <= n}}

Row(s1, s2, cm) == [system_type_1 |-> s1, system_type_2 |-> s2, min_distance_cm |-> cm]

\* contents of system_distances: a table holding the pair water, sewerage in
\* both orders (the second with the value of the seed of init.sql) and a zero
\* rule, and a table of two half-metre rules.  Neither has a rule for power.
RuleTables ==
    {<<Row("sewerage", "water", 100), Row("water", "sewerage", 500), Row("water", "telecom", 0)>>,
     <<Row("telecom", "water", 50), Row("water", "sewerage", 50)>>}

NoValidation == [called |-> FALSE, valid |-> FALSE, errors |-> <<>>]
NoReverse == [called |-> FALSE, k |-> 0, valid |-> FALSE, errors |-> <<>>]

\* updateTrace not called
NoUpdate == [called |-> FALSE, status |-> "none", row |-> <<>>]

\* buildOffsetPath not called
NoOffset == [called |-> FALSE, path1 |-> <<>>, path2 |-> <<>>]

\* the map is not open
NoUi == [mode |-> "none"]

NoRoute ==
    [kind |-> "none", start |-> Pt(0, 0), end |-> Pt(0, 0),
     outwardNormal |-> Pt(0, 0), tangent |-> Pt(0, 0), system |-> "water"]

\* the server with no request
ServerIdle ==
    /\ traces = <<>>
    /\ pc = <<>>
    /\ req = <<>>
    /\ tx = <<>>
    /\ poolFree = 0
    /\ nextId = 0
    /\ response = <<>>
    /\ updateResult = NoUpdate

BuilderIdle ==
    /\ routeArgs = NoRoute
    /\ routePath = <<>>
    /\ offsetResult = NoOffset
    /\ ui = NoUi

ValidatorIdle ==
    /\ newTrace = [system |-> "water", path |-> <<>>]
    /\ existingTraces = <<>>
    /\ validation = NoValidation
    /\ reverse = NoReverse

serverVars == <<traces, pc, req, tx, poolFree, nextId, response, updateResult>>
builderVars == <<routeArgs, routePath, offsetResult, ui>>
validatorVars == <<newTrace, existingTraces, validation, reverse>>

InitValidate ==
    /\ system_distances \in RuleTables
    /\ newTrace \in Candidates
    /\ existingTraces \in Selections(StoredRoutes, MaxExisting)
    /\ validation = NoValidation
    /\ reverse = NoReverse
    /\ ServerIdle
    /\ BuilderIdle

\* a call validateTraceDistance(newTrace, existingTraces)
Validate ==
    /\ ~validation.called
    /\ validation' = [called |-> TRUE] @@ validateTraceDistance(system_distances, newTrace, existingTraces)
    /\ UNCHANGED <<system_distances, newTrace, existingTraces, reverse>>
    /\ UNCHANGED <<serverVars, builderVars>>

\* the call with the roles exchanged: existing route k is the candidate and the
\* candidate is the only existing route
ValidateReverse(k) ==
    /\ validation.called
    /\ ~reverse.called
    /\ k \in 1 .. Len(existingTraces)
    /\ reverse' = [called |-> TRUE, k |-> k]
                   @@ validateTraceDistance(system_distances, existingTraces[k], <<newTrace>>)
    /\ UNCHANGED <<system_distances, newTrace, existingTraces, validation>>
    /\ UNCHANGED <<serverVars, builderVars>>

NextValidate ==
    \/ Validate
    \/ \E k \in 1 .. MaxExisting : ValidateReverse(k)

SpecValidate == InitValidate /\ [][NextValidate]_vars

(***************************************************************************)
(* traces-api.ts POST / and traces-service.ts createTrace                  *)
(*                                                                         *)
(* A request is one call of the handler.  createTrace is cut at its awaits *)
(* that reach the database.  The transaction runs at READ COMMITTED, the   *)
(* level the code leaves in force: a SELECT sees the rows committed before *)
(* it, its own INSERT is invisible to the others until COMMIT.             *)
(***************************************************************************)
NumClients == 2

Clients == 1 .. NumClients

\* connections of the pg Pool
PoolSize == 2

\* system_distances as filled by init.sql (the rows of the systems used here)
SeedRules ==
    <<Row("water", "sewerage", 500), Row("water", "telecom", 50), Row("sewerage", "telecom", 50)>>

RequiredFields == {"projectId", "systemType", "startLat", "startLng", "endLat", "endLng", "pathPoints"}

\* a request body; present names the fields the body defines, an id of 0 is an
\* id the body leaves out
Body(present, projectId, systemType, pathPoints, doubleLine, spacingMeters, buildingId, validateDistances) ==
    [present |-> present,
     projectId |-> projectId,
     systemType |-> systemType,
     startLat |-> pathPoints[1].lat,
     startLng |-> pathPoints[1].lng,
     endLat |-> pathPoints[Len(pathPoints)].lat,
     endLng |-> pathPoints[Len(pathPoints)].lng,
     pathPoints |-> pathPoints,
     doubleLine |-> doubleLine,
     spacingMeters |-> spacingMeters,
     buildingId |-> buildingId,
     mainlineId |-> 0,
     transformerStationId |-> 0,
     validateDistances |-> validateDistances]

\* the bodies the clients send: a water route, a sewerage route one metre
\* beside it, the sewerage route with validateDistances false, and a body
\* without pathPoints
Requests ==
    {Body(RequiredFields, 1, "water", <<Pt(0, 0), Pt(0, GridMax)>>, TRUE, 40, 7, TRUE),
     Body(RequiredFields, 1, "sewerage", <<Pt(1, 0), Pt(1, GridMax)>>, FALSE, 0, 0, TRUE),
     Body(RequiredFields, 1, "sewerage", <<Pt(1, 0), Pt(1, GridMax)>>, FALSE, 0, 0, FALSE),
     Body(RequiredFields \ {"pathPoints"}, 1, "water", <<Pt(0, 0), Pt(0, GridMax)>>, FALSE, 0, 0, TRUE)}

NoBody == Body({}, 0, "", <<Pt(0, 0)>>, FALSE, 0, 0, FALSE)

\* JSON.stringify(pathPoints) and the jsonb value the column keeps of it
JSONstringify(value) == [json |-> value]
jsonb(text) == text.json

\* x || null and x || 0 on an id or a number: 0 stands for both
orNull(x) == IF x = 0 THEN 0 ELSE x

\* the row the INSERT of createTrace writes
insertRow(id, projectId, systemType, startLat, startLng, endLat, endLng, pathPoints, doubleLine, spacingMeters, buildingId, mainlineId, transformerStationId) ==
    [id |-> id,
     project_id |-> projectId,
     system_type |-> systemType,
     building_id |-> orNull(buildingId),
     mainline_id |-> orNull(mainlineId),
     transformer_station_id |-> orNull(transformerStationId),
     start_lat |-> startLat,
     start_lng |-> startLng,
     end_lat |-> endLat,
     end_lng |-> endLng,
     path_points |-> jsonb(JSONstringify(pathPoints)),
     double_line |-> doubleLine,
     spacing_meters |-> spacingMeters,
     min_angle_degrees |-> 90]

\* a row of another project, stored before the requests arrive
SeedTraces ==
    <<insertRow(1, 2, "sewerage", Num(0), Num(0), Num(0), Num(GridMax),
                <<Pt(0, 0), Pt(0, GridMax)>>, FALSE, 0, 0, 0, 0)>>

\* SELECT system_type, path_points FROM traces WHERE project_id = $1, mapped
\* to {system, path}
selectExisting(table, projectId) ==
    LET rows == SelectSeq(table, LAMBDA row : row.project_id = projectId)
    IN  [i \in 1 .. Len(rows) |-> [system |-> rows[i].system_type, path |-> rows[i].path_points]]

\* the effect of COMMIT and of ROLLBACK on the committed rows, for a
\* transaction whose uncommitted rows are pending
txCommit(table, pending) == table \o pending
\* a ROLLBACK that keeps the uncommitted rows
txRollbackKeeps(table, pending) == table \o pending
txRollback(table, pending) == table

\* the locals of a createTrace call: the statements sent on its client, the
\* routes read, the position in the loop of validateTraceDistance, the errors
\* collected, the uncommitted row, and how the call ended
NoCall ==
    [called |-> FALSE, held |-> FALSE, stmts |-> <<>>, existing |-> <<>>, k |-> 0,
     validationErrors |-> <<>>, pending |-> <<>>, result |-> "none"]

NoResponse == [status |-> 0, error |-> "", validationErrors |-> <<>>, trace |-> <<>>]

Init ==
    /\ system_distances = SeedRules
    /\ traces = SeedTraces
    /\ pc = [p \in Clients |-> "idle"]
    /\ req = [p \in Clients |-> NoBody]
    /\ tx = [p \in Clients |-> NoCall]
    /\ poolFree = PoolSize
    /\ nextId = Len(SeedTraces) + 1
    /\ response = [p \in Clients |-> NoResponse]
    /\ updateResult = NoUpdate
    /\ ValidatorIdle
    /\ BuilderIdle

idleVars == <<system_distances, validatorVars, builderVars>>

\* the state the steps of POST /api/traces leave alone
createIdle == <<idleVars, updateResult>>

\* the handler up to the call of createTrace: a body with a required field
\* missing is answered 400 at once
Submit(p, body) ==
    /\ pc[p] = "idle"
    /\ req' = [req EXCEPT ![p] = body]
    /\ IF \/ "projectId" \notin body.present
          \/ "systemType" \notin body.present \/ body.systemType = ""
          \/ "startLat" \notin body.present
          \/ "startLng" \notin body.present
          \/ "endLat" \notin body.present
          \/ "endLng" \notin body.present
          \/ "pathPoints" \notin body.present
       THEN /\ response' = [response EXCEPT ![p] =
                    [NoResponse EXCEPT !.status = 400, !.error = "Missing required fields"]]
            /\ pc' = [pc EXCEPT ![p] = "done"]
            /\ tx' = tx
       ELSE /\ tx' = [tx EXCEPT ![p] = [NoCall EXCEPT !.called = TRUE]]
            /\ pc' = [pc EXCEPT ![p] = "connect"]
            /\ response' = response
    /\ UNCHANGED <<traces, poolFree, nextId, createIdle>>

\* pool.connect() hands out a free connection
Connect(p) ==
    /\ pc[p] = "connect"
    /\ poolFree > 0
    /\ poolFree' = poolFree - 1
    /\ tx' = [tx EXCEPT ![p].held = TRUE]
    /\ pc' = [pc EXCEPT ![p] = "begin"]
    /\ UNCHANGED <<traces, req, nextId, response, createIdle>>

\* pool.connect() rejects: createTrace throws before its try block, the
\* handler answers 500
ConnectThrows(p) ==
    /\ pc[p] = "connect"
    /\ tx' = [tx EXCEPT ![p].result = "threw"]
    /\ response' = [response EXCEPT ![p] =
            [NoResponse EXCEPT !.status = 500, !.error = "Failed to create trace"]]
    /\ pc' = [pc EXCEPT ![p] = "done"]
    /\ UNCHANGED <<traces, req, poolFree, nextId, createIdle>>

\* the position of the first route from k on that is of another system type
\* than the candidate (the loop of validateTraceDistance skips the others
\* without awaiting), Len + 1 when there is none
RECURSIVE nextOther(_, _, _)
nextOther(existing, system, k) ==
    IF k > Len(existing) THEN k
    ELSE IF existing[k].system = system THEN nextOther(existing, system, k + 1)
    ELSE k

\* client.query('BEGIN')
Begin(p) ==
    /\ pc[p] = "begin"
    /\ tx' = [tx EXCEPT ![p].stmts = Append(@, "BEGIN")]
    /\ pc' = [pc EXCEPT ![p] = IF req[p].validateDistances THEN "select" ELSE "insert"]
    /\ UNCHANGED <<traces, req, poolFree, nextId, response, createIdle>>

\* the SELECT of the project's routes, and validateTraceDistance up to its
\* first getMinDistance
Select(p) ==
    /\ pc[p] = "select"
    /\ LET existing == selectExisting(traces, req[p].projectId)
           k == nextOther(existing, req[p].systemType, 1)
       IN  /\ tx' = [tx EXCEPT ![p].stmts = Append(@, "SELECT"),
                                ![p].existing = existing,
                                ![p].k = k]
           /\ pc' = [pc EXCEPT ![p] = IF k > Len(existing) THEN "insert" ELSE "lookup"]
    /\ UNCHANGED <<traces, req, poolFree, nextId, response, createIdle>>

\* getMinDistance for route k through pool.query, which needs a free
\* connection and returns it, then the segment loops for route k and the loop
\* over the routes up to the next getMinDistance
Lookup(p) ==
    /\ pc[p] = "lookup"
    /\ poolFree > 0
    /\ LET t == tx[p]
           candidate == [system |-> req[p].systemType, path |-> req[p].pathPoints]
           k == nextOther(t.existing, req[p].systemType, t.k + 1)
       IN  /\ tx' = [tx EXCEPT ![p].validationErrors =
                                    @ \o checkExisting(system_distances, candidate, t.existing[t.k]),
                                ![p].k = k]
           /\ pc' = [pc EXCEPT ![p] = IF k > Len(t.existing) THEN "insert" ELSE "lookup"]
    /\ UNCHANGED <<traces, req, poolFree, nextId, response, createIdle>>

\* an INSERT that is left out when the check found violations
InsertUnlessViolations(p) ==
    /\ pc[p] = "insert"
    /\ IF tx[p].validationErrors # <<>>
       THEN tx' = [tx EXCEPT ![p].stmts = Append(@, "INSERT")] /\ nextId' = nextId
       ELSE /\ tx' = [tx EXCEPT ![p].stmts = Append(@, "INSERT"),
                                ![p].pending = <<insertRow(nextId, req[p].projectId, req[p].systemType,
                                    req[p].startLat, req[p].startLng, req[p].endLat, req[p].endLng,
                                    req[p].pathPoints, req[p].doubleLine, req[p].spacingMeters,
                                    req[p].buildingId, req[p].mainlineId, req[p].transformerStationId)>>]
            /\ nextId' = nextId + 1
    /\ pc' = [pc EXCEPT ![p] = "commit"]
    /\ UNCHANGED <<traces, req, poolFree, response, createIdle>>

\* the INSERT ... RETURNING *; the id comes from the sequence, which does not
\* roll back
Insert(p) ==
    /\ pc[p] = "insert"
    /\ LET b == req[p]
           row == insertRow(nextId, b.projectId, b.systemType, b.startLat, b.startLng,
                            b.endLat, b.endLng, b.pathPoints,
                            b.doubleLine, b.spacingMeters,
                            b.buildingId, b.mainlineId, b.transformerStationId)
       IN  tx' = [tx EXCEPT ![p].stmts = Append(@, "INSERT"), ![p].pending = <<row>>]
    /\ nextId' = nextId + 1
    /\ pc' = [pc EXCEPT ![p] = "commit"]
    /\ UNCHANGED <<traces, req, poolFree, response, createIdle>>

\* client.query('COMMIT')
Commit(p) ==
    /\ pc[p] = "commit"
    /\ traces' = txCommit(traces, tx[p].pending)
    /\ tx' = [tx EXCEPT ![p].stmts = Append(@, "COMMIT"), ![p].result = "returned"]
    /\ pc' = [pc EXCEPT ![p] = "finally"]
    /\ UNCHANGED <<req, poolFree, nextId, response, createIdle>>

\* a query of the try block rejects (BEGIN, the SELECT, a getMinDistance, the
\* INSERT or COMMIT): control passes to the catch block
QueryThrows(p) ==
    /\ pc[p] \in {"begin", "select", "lookup", "insert", "commit"}
    /\ pc' = [pc EXCEPT ![p] = "catch"]
    /\ UNCHANGED <<traces, req, tx, poolFree, nextId, response, createIdle>>

\* the catch block: client.query('ROLLBACK'), then the error is thrown again
Rollback(p) ==
    /\ pc[p] = "catch"
    /\ traces' = txRollback(traces, tx[p].pending)
    /\ tx' = [tx EXCEPT ![p].stmts = Append(@, "ROLLBACK"), ![p].pending = <<>>,
                         ![p].result = "threw"]
    /\ pc' = [pc EXCEPT ![p] = "finally"]
    /\ UNCHANGED <<req, poolFree, nextId, response, createIdle>>

\* the finally block, client.release(), and the rest of the handler: 500 when
\* createTrace threw, 400 with the errors and the trace when the list of
\* validation errors is not empty, the trace otherwise
Finish(p) ==
    /\ pc[p] = "finally"
    /\ poolFree' = poolFree + 1
    /\ tx' = [tx EXCEPT ![p].held = FALSE]
    /\ response' = [response EXCEPT ![p] =
            IF tx[p].result = "threw"
            THEN [NoResponse EXCEPT !.status = 500, !.error = "Failed to create trace"]
            ELSE IF Len(tx[p].validationErrors) > 0
            THEN [status |-> 400, error |-> "Distance validation failed",
                  validationErrors |-> tx[p].validationErrors, trace |-> tx[p].pending]
            ELSE [NoResponse EXCEPT !.status = 200, !.trace = tx[p].pending]]
    /\ pc' = [pc EXCEPT ![p] = "done"]
    /\ UNCHANGED <<traces, req, nextId, createIdle>>

Next ==
    \E p \in Clients :
        \/ \E body \in Requests : Submit(p, body)
        \/ Connect(p)
        \/ ConnectThrows(p)
        \/ Begin(p)
        \/ Select(p)
        \/ Lookup(p)
        \/ Insert(p)
        \/ Commit(p)
        \/ QueryThrows(p)
        \/ Rollback(p)
        \/ Finish(p)

Spec == Init /\ [][Next]_vars

\* the application and the server: ui holds the list of routes of the
\* application (traces) and the requests whose answer it has handled
InitApp ==
    /\ system_distances = SeedRules
    /\ traces = SeedTraces
    /\ pc = [p \in Clients |-> "idle"]
    /\ req = [p \in Clients |-> NoBody]
    /\ tx = [p \in Clients |-> NoCall]
    /\ poolFree = PoolSize
    /\ nextId = Len(SeedTraces) + 1
    /\ response = [p \in Clients |-> NoResponse]
    /\ updateResult = NoUpdate
    /\ ValidatorIdle
    /\ routeArgs = NoRoute
    /\ routePath = <<>>
    /\ offsetResult = NoOffset
    /\ ui = [mode |-> "app", traces |-> <<>>, handled |-> {}, validationErrors |-> <<>>]

\* the promise of tracesApi.create settles: axios resolves it for a status
\* from 200 to 299 and rejects it otherwise.  The try block appends
\* response.data to the list, the catch block shows the errors.
Receive(p) ==
    /\ ui.mode = "app"
    /\ pc[p] = "done"
    /\ p \notin ui.handled
    /\ ui' = IF response[p].status >= 200 /\ response[p].status < 300
             THEN [ui EXCEPT !.traces = @ \o response[p].trace,
                             !.validationErrors = <<>>,
                             !.handled = @ \cup {p}]
             ELSE [ui EXCEPT !.validationErrors =
                                 IF response[p].validationErrors # <<>>
                                 THEN response[p].validationErrors
                                 ELSE <<response[p].error>>,
                             !.handled = @ \cup {p}]
    /\ UNCHANGED <<system_distances, validatorVars, serverVars, routeArgs, routePath, offsetResult>>

\* the application sends complete bodies with validateDistances true
NextApp ==
    \E p \in Clients :
        \/ \E body \in {b \in Requests : b.present = RequiredFields /\ b.validateDistances} :
              Submit(p, body)
        \/ Connect(p)
        \/ ConnectThrows(p)
        \/ Begin(p)
        \/ Select(p)
        \/ Lookup(p)
        \/ Insert(p)
        \/ Commit(p)
        \/ QueryThrows(p)
        \/ Rollback(p)
        \/ Finish(p)
        \/ Receive(p)

SpecApp == InitApp /\ [][NextApp]_vars

\* the requests arrive at a project that has a water and a sewerage route
\* stored, so that every validated request looks up a rule
InitLive ==
    /\ system_distances = SeedRules
    /\ traces = SeedTraces \o
                <<insertRow(Len(SeedTraces) + 1, 1, "water", Num(0), Num(0), Num(0), Num(GridMax),
                            <<Pt(0, 0), Pt(0, GridMax)>>, TRUE, 40, 0, 0, 0),
                  insertRow(Len(SeedTraces) + 2, 1, "sewerage", Num(GridMax), Num(0), Num(GridMax), Num(GridMax),
                            <<Pt(GridMax, 0), Pt(GridMax, GridMax)>>, FALSE, 0, 0, 0, 0)>>
    /\ pc = [p \in Clients |-> "idle"]
    /\ req = [p \in Clients |-> NoBody]
    /\ tx = [p \in Clients |-> NoCall]
    /\ poolFree = PoolSize
    /\ nextId = Len(SeedTraces) + 3
    /\ response = [p \in Clients |-> NoResponse]
    /\ updateResult = NoUpdate
    /\ ValidatorIdle
    /\ BuilderIdle

\* the event loop runs a continuation while one is ready: a call that has a
\* connection to take or a statement to send goes on, and so does a lookup
\* while the pool has a free connection; no request is bound to arrive and no
\* query is bound to reject.  Every call takes a bounded number of steps, so
\* no call is passed over for ever.  The weak fairness of Lookup is written
\* out, with ENABLED <<Lookup(p)>>_vars as pc[p] = "lookup" /\ poolFree > 0.
SpecLive ==
    /\ InitLive
    /\ [][Next]_vars
    /\ WF_vars(\E p \in Clients : \/ Connect(p) \/ Begin(p) \/ Select(p)
                                   \/ Insert(p) \/ Commit(p) \/ Rollback(p) \/ Finish(p))
    /\ \/ []<>(~(\E p \in Clients : pc[p] = "lookup" /\ poolFree > 0))
       \/ []<><<\E p \in Clients : Lookup(p)>>_vars

(***************************************************************************)
(* traces-service.ts updateTrace, and requests with short paths            *)
(***************************************************************************)
\* an optional argument
Given(value) == [given |-> TRUE, value |-> value]
NotGiven == [given |-> FALSE, value |-> <<>>]

\* JSON.parse of a value that is not a string: the argument is converted with
\* String(), which for an array of points is "" or "[object Object],..." and
\* never a JSON text, so the call throws a SyntaxError.  path_points is a
\* jsonb column, which the driver returns parsed.
JSONparse(value) == [threw |-> TRUE, value |-> value]

\* the rows of table with the given id
rowsById(table, traceId) == SelectSeq(table, LAMBDA row : row.id = traceId)

\* an UPDATE without its WHERE clause
updateRowsAll(table, traceId, pathPoints) ==
    [x \in 1 .. Len(table) |-> [table[x] EXCEPT !.path_points = jsonb(JSONstringify(pathPoints))]]

\* UPDATE traces SET path_points = $1 WHERE id = $2
updateRows(table, traceId, pathPoints) ==
    [x \in 1 .. Len(table) |->
        IF table[x].id = traceId
        THEN [table[x] EXCEPT !.path_points = jsonb(JSONstringify(pathPoints))]
        ELSE table[x]]

\* updateTrace: the table it leaves and what it returns.  A [] is truthy, so
\* every returned row goes through JSON.parse.
updateTrace(table, traceId, pathPoints) ==
    IF ~pathPoints.given
    THEN LET rows == rowsById(table, traceId)
         IN  [table |-> table,
              status |-> IF Len(rows) = 0 THEN "null" ELSE "row",
              row |-> rows]
    ELSE LET after == updateRows(table, traceId, pathPoints.value)
             rows == rowsById(after, traceId)
         IN  [table |-> after,
              status |-> IF Len(rows) = 0 THEN "null"
                         ELSE IF JSONparse(rows[1].path_points).threw THEN "threw"
                         ELSE "row",
              row |-> IF Len(rows) = 0 \/ JSONparse(rows[1].path_points).threw
                      THEN <<>> ELSE rows]

\* the ids updateTrace is called with: those of the seed rows and as many
\* more as there are requests (an id of no row, until the requests stored
\* theirs)
TraceIds == 1 .. (Len(SeedTraces) + NumClients)

\* the paths updateTrace is called with
UpdatePaths ==
    {NotGiven, Given(<<>>), Given(<<Pt(1, 1)>>), Given(<<Pt(0, 0), Pt(1, 0), Pt(1, 1)>>)}

\* a call of updateTrace: one statement through pool.query
UpdateTrace(traceId, pathPoints) ==
    /\ ~updateResult.called
    /\ poolFree > 0
    /\ LET r == updateTrace(traces, traceId, pathPoints)
       IN  /\ traces' = r.table
           /\ updateResult' = [called |-> TRUE, status |-> r.status, row |-> r.row]
    /\ UNCHANGED <<pc, req, tx, poolFree, nextId, response, idleVars>>

\* requests whose pathPoints has no point and one point
ShortRequests ==
    {[Body(RequiredFields, 1, "water", <<Pt(0, 0), Pt(0, GridMax)>>, FALSE, 0, 0, TRUE)
         EXCEPT !.pathPoints = <<>>],
     [Body(RequiredFields, 1, "sewerage", <<Pt(1, 0), Pt(1, GridMax)>>, FALSE, 0, 0, TRUE)
         EXCEPT !.pathPoints = <<Pt(1, 0)>>]}

\* at most two requests are in flight beside the call of updateTrace
NextStore ==
    \/ \E p \in Clients \cap (1 .. 2) :
          \/ \E body \in ShortRequests : Submit(p, body)
          \/ Connect(p)
          \/ ConnectThrows(p)
          \/ Begin(p)
          \/ Select(p)
          \/ Lookup(p)
          \/ Insert(p)
          \/ Commit(p)
          \/ QueryThrows(p)
          \/ Rollback(p)
          \/ Finish(p)
    \/ \E traceId \in TraceIds, pathPoints \in UpdatePaths : UpdateTrace(traceId, pathPoints)

SpecStore == Init /\ [][NextStore]_vars

(***************************************************************************)
(* App.tsx: the path builders                                              *)
(***************************************************************************)
\* v.north / len and v.east / len, for len = Math.sqrt(...) || 1
normalizeMeterVec(v) ==
    LET divide(len) == [north |-> RDiv(v.north, len), east |-> RDiv(v.east, len)]
        orOne(root) == IF ~IsFinite(root) \/ RIsZero(root) THEN Num(1) ELSE root
    IN  divide(orOne(RSqrt(RAdd(RMul(v.north, v.north), RMul(v.east, v.east)))))

toMeterVec(v, latRef) ==
    [north |-> RMul(v.lat, metersPerUnitLat), east |-> RMul(v.lng, metersPerDegLng(latRef))]

toDegreeVec(v, latRef) ==
    [lat |-> RDiv(v.north, metersPerUnitLat), lng |-> RDiv(v.east, metersPerDegLng(latRef))]

isFiniteLatLng(p) == IsFinite(p.lat) /\ IsFinite(p.lng)

dotM(u, v) == RAdd(RMul(u.north, v.north), RMul(u.east, v.east))

\* a builder that takes the outward normal it is given for the wall normal
wallNormalAsGiven(tUnitM, outwardNormalM) == outwardNormalM

\* the unit normal of the wall: the tangent turned by 90 degrees, on the side
\* of the outward normal
wallNormal(tUnitM, outwardNormalM) ==
    LET side(nUnitM) ==
            IF RLt(dotM(nUnitM, outwardNormalM), Num(0))
            THEN [north |-> RNeg(nUnitM.north), east |-> RNeg(nUnitM.east)]
            ELSE nUnitM
    IN  side(normalizeMeterVec([north |-> RNeg(tUnitM.east), east |-> tUnitM.north]))

\* The function is composed of its consecutive statements, each a local
\* operator that receives the constants computed before it.
buildOrthogonalLocalPath(start, outwardNormalDeg, tangentDeg, end, offsetMeters) ==
    LET latRef == start.lat
        elbow == <<start, [lat |-> start.lat, lng |-> end.lng], end>>
        scaled(u, k) == [north |-> RMul(u.north, k), east |-> RMul(u.east, k)]
        plus(p, q) == [lat |-> RAdd(p.lat, q.lat), lng |-> RAdd(p.lng, q.lng)]
        \* the last check and the return
        fromLast(p1, mid, last) ==
            IF ~isFiniteLatLng(mid) \/ ~isFiniteLatLng(last) THEN elbow
            ELSE <<start, p1, mid, last>>
        \* mid and last
        fromLegs(p1, p2, p3) ==
            LET withMid(mid) == fromLast(p1, mid, plus(mid, p3))
            IN  withMid(plus(p1, p2))
        \* tDist, nDist, p2 and p3
        fromVecToEnd(p1, tUnitM, nUnitM, vecToEndM) ==
            LET tDist == dotM(vecToEndM, tUnitM)
                nDist == dotM(vecToEndM, nUnitM)
            IN  fromLegs(p1, toDegreeVec(scaled(tUnitM, tDist), latRef),
                             toDegreeVec(scaled(nUnitM, nDist), latRef))
        \* the check of p1, and vecToEndM
        fromP1(p1, tUnitM, nUnitM) ==
            IF ~isFiniteLatLng(p1) THEN elbow
            ELSE fromVecToEnd(p1, tUnitM, nUnitM,
                    [north |-> RMul(RSub(end.lat, p1.lat), metersPerUnitLat),
                     east |-> RMul(RSub(end.lng, p1.lng),
                                   metersPerDegLng(RDiv(RAdd(end.lat, p1.lat), Num(2))))])
        \* offsetM, offsetDeg and p1
        fromNormal(tUnitM, nUnitM) ==
            LET offsetM == scaled(nUnitM, offsetMeters)
                offsetDeg == toDegreeVec(offsetM, latRef)
            IN  fromP1(plus(start, offsetDeg), tUnitM, nUnitM)
        \* nUnitM
        fromTangent(outwardNormalM, tUnitM) ==
            fromNormal(tUnitM, wallNormal(tUnitM, outwardNormalM))
    IN  IF ~isFiniteLatLng(start) \/ ~isFiniteLatLng(end) THEN elbow
        ELSE fromTangent(normalizeMeterVec(toMeterVec(outwardNormalDeg, latRef)),
                         normalizeMeterVec(toMeterVec(tangentDeg, latRef)))

\* getAttachPerpMeters: 3 m for sewerage, 5 m otherwise
getAttachPerpMeters(system) == IF system = "sewerage" THEN Num(3) ELSE Num(5)

Vec(a, b) == [lat |-> Num(a), lng |-> Num(b)]

\* the length of v in the metre frame of latRef is a fraction, so that
\* Math.sqrt is exact on it
HasLength(v, latRef) ==
    LET m == toMeterVec(v, latRef)
    IN  RHasSqrt(RAdd(RMul(m.north, m.north), RMul(m.east, m.east)))

\* directions of walls, in degrees (grid units): along a parallel, along a
\* meridian and oblique, and the zero vector
Directions ==
    {Vec(0, 0), Vec(1, 0), Vec(-1, 0), Vec(0, 1), Vec(0, -1),
     Vec(4, 5), Vec(-4, 5), Vec(3, 8), Vec(3, -8)}

NaNPoint == [lat |-> NonFinite, lng |-> NonFinite]

RouteCall(kind, start, end, outwardNormal, tangent, system) ==
    [kind |-> kind, start |-> start, end |-> end,
     outwardNormal |-> outwardNormal, tangent |-> tangent, system |-> system]

\* the calls of the builders: from a wall whose tangent and normal have
\* lengths Math.sqrt gives exactly, from a start that is not finite, and the
\* plain elbow
InitRoute ==
    /\ routePath = <<>>
    /\ offsetResult = NoOffset
    /\ ui = NoUi
    /\ system_distances = <<>>
    /\ ServerIdle
    /\ ValidatorIdle
    /\ \E end \in GridPoints :
          \/ \E start \in GridPoints, tangent \in Directions, outwardNormal \in Directions,
                system \in {"water", "sewerage"} :
                /\ HasLength(tangent, start.lat)
                /\ HasLength(outwardNormal, start.lat)
                /\ routeArgs = RouteCall("attached", start, end, outwardNormal, tangent, system)
          \/ routeArgs = RouteCall("attached", NaNPoint, end, Vec(0, 1), Vec(1, 0), "water")
          \/ \E start \in GridPoints \cup {NaNPoint} :
                routeArgs = RouteCall("elbow", start, end, Vec(0, 0), Vec(0, 0), "water")

\* a route that starts at an attachment on a wall
BuildAttached ==
    /\ routeArgs.kind = "attached"
    /\ routePath = <<>>
    /\ routePath' = buildOrthogonalLocalPath(routeArgs.start, routeArgs.outwardNormal,
                         routeArgs.tangent, routeArgs.end, getAttachPerpMeters(routeArgs.system))
    /\ UNCHANGED <<routeArgs, offsetResult, ui, system_distances, serverVars, validatorVars>>

\* a route that starts at the clicked point
BuildElbow ==
    /\ routeArgs.kind = "elbow"
    /\ routePath = <<>>
    /\ routePath' = buildOrthogonalPath(routeArgs.start, routeArgs.end)
    /\ UNCHANGED <<routeArgs, offsetResult, ui, system_distances, serverVars, validatorVars>>

NextRoute == BuildAttached \/ BuildElbow

SpecRoute == InitRoute /\ [][NextRoute]_vars

(***************************************************************************)
(* App.tsx: buildOffsetPath and the rendering of a dual line               *)
(***************************************************************************)
\* digits Math.sqrt keeps of a root that is not a fraction
SqrtScale == 10

\* Math.sqrt: exact on the squares of fractions, rounded down to a multiple of
\* 1/SqrtScale otherwise, NaN on a negative number
MathSqrt(a) ==
    IF RHasSqrt(a) THEN RSqrt(a)
    ELSE IF ~IsFinite(a) \/ a.n < 0 THEN NonFinite
    ELSE Rat(ISqrt((a.n * SqrtScale * SqrtScale) \div a.d), SqrtScale)

\* x || 1
OrOne(x) == IF ~IsFinite(x) \/ RIsZero(x) THEN Num(1) ELSE x

\* the unit normal, in metres, of the segment from a to b: the direction
\* turned to { north: east / len, east: -north / len }
segmentNormalM(a, b) ==
    LET turned(vecM, len) ==
            [north |-> RDiv(vecM.east, len), east |-> RDiv(RNeg(vecM.north), len)]
        withVec(vecM) ==
            turned(vecM, OrOne(MathSqrt(RAdd(RMul(vecM.north, vecM.north),
                                             RMul(vecM.east, vecM.east)))))
    IN  withVec(toMeterVec([lat |-> RSub(b.lat, a.lat), lng |-> RSub(b.lng, a.lng)],
                           RDiv(RAdd(b.lat, a.lat), Num(2))))

\* the normal at a corner: the average of the two normals, normalised
cornerNormalM(prevNormalM, nextNormalM) ==
    LET divided(normalM, normLen) ==
            [north |-> RDiv(normalM.north, normLen), east |-> RDiv(normalM.east, normLen)]
        withAverage(normalM) ==
            divided(normalM, OrOne(MathSqrt(RAdd(RMul(normalM.north, normalM.north),
                                                 RMul(normalM.east, normalM.east)))))
    IN  withAverage([north |-> RDiv(RAdd(prevNormalM.north, nextNormalM.north), Num(2)),
                     east |-> RDiv(RAdd(prevNormalM.east, nextNormalM.east), Num(2))])

\* an iteration that shifts every vertex to the same side, whatever the sign
\* of the offset
offsetVertexOneSide(numPath, i, offsetMeters) ==
    LET current == numPath[i]
        pushed(offsetDeg) ==
            [lat |-> RAdd(current.lat, offsetDeg.lat), lng |-> RAdd(current.lng, offsetDeg.lng)]
        withNormal(normalM, meters) ==
            pushed(toDegreeVec([north |-> RMul(normalM.north, meters),
                                east |-> RMul(normalM.east, meters)], current.lat))
    IN  withNormal(IF i = 1 THEN segmentNormalM(current, numPath[i + 1])
                   ELSE IF i = Len(numPath) THEN segmentNormalM(numPath[i - 1], current)
                   ELSE cornerNormalM(segmentNormalM(numPath[i - 1], current),
                                      segmentNormalM(current, numPath[i + 1])),
                   IF RLt(offsetMeters, Num(0)) THEN RNeg(offsetMeters) ELSE offsetMeters)

\* one iteration of the loop of buildOffsetPath: the point pushed for vertex i
offsetVertex(numPath, i, offsetMeters) ==
    LET current == numPath[i]
        pushed(offsetDeg) ==
            [lat |-> RAdd(current.lat, offsetDeg.lat), lng |-> RAdd(current.lng, offsetDeg.lng)]
        withNormal(normalM) ==
            pushed(toDegreeVec([north |-> RMul(normalM.north, offsetMeters),
                                east |-> RMul(normalM.east, offsetMeters)], current.lat))
    IN  withNormal(IF i = 1 THEN segmentNormalM(current, numPath[i + 1])
                   ELSE IF i = Len(numPath) THEN segmentNormalM(numPath[i - 1], current)
                   ELSE cornerNormalM(segmentNormalM(numPath[i - 1], current),
                                      segmentNormalM(current, numPath[i + 1])))

\* a builder that returns no point for a path of fewer than two points
buildOffsetPathDropsShort(path, offsetMeters) ==
    IF Len(path) < 2 THEN <<>>
    ELSE IF RIsZero(offsetMeters) THEN path
    ELSE [i \in 1 .. Len(path) |-> offsetVertex(path, i, offsetMeters)]

buildOffsetPath(path, offsetMeters) ==
    IF Len(path) < 2 \/ RIsZero(offsetMeters) THEN path
    ELSE [i \in 1 .. Len(path) |-> offsetVertex(path, i, offsetMeters)]

\* paths that are drawn: straight and oblique segments, elbows, a four-point
\* route with a repeated point, and the paths of fewer than two points
OffsetPaths ==
    TwoPointPaths \cup ElbowPaths \cup ShortPaths
    \cup {<<Pt(0, 0), Pt(0, 1), Pt(GridMax, 1), Pt(GridMax, 1)>>,
          <<Pt(0, 0), Pt(1, 1), Pt(0, GridMax)>>}

\* spacingMeters / 2 for a spacing of 0, 1, 3 and 4 m, and the offset NaN
OffsetValues == {Num(0), Rat(1, 2), Rat(3, 2), Num(2), NonFinite}

InitOffset ==
    /\ routeArgs \in [kind : {"offset"}, path : OffsetPaths, offsetMeters : OffsetValues]
    /\ routePath = <<>>
    /\ offsetResult = NoOffset
    /\ ui = NoUi
    /\ system_distances = <<>>
    /\ ServerIdle
    /\ ValidatorIdle

\* the two lines of a dual-line route: path1 and path2
RenderDualLine ==
    /\ ~offsetResult.called
    /\ offsetResult' =
          [called |-> TRUE,
           path1 |-> buildOffsetPath(routeArgs.path, routeArgs.offsetMeters),
           path2 |-> buildOffsetPath(routeArgs.path, RNeg(routeArgs.offsetMeters))]
    /\ UNCHANGED <<routeArgs, routePath, ui, system_distances, serverVars, validatorVars>>

NextOffset == RenderDualLine

SpecOffset == InitOffset /\ [][NextOffset]_vars

(***************************************************************************)
(* App.tsx: the resolvers of attachments                                   *)
(* A distance is carried as its square, and compared with the square of    *)
(* the radius.                                                             *)
(***************************************************************************)
\* null and undefined
Null == [null |-> TRUE]

\* { lat: 55.7558, lng: 37.6173 }, in grid units
DEFAULT_CENTER == [lat |-> Rat(775841957, 125), lng |-> Rat(1046889459, 250)]

toNumber(value, fallback) == IF IsFinite(value) THEN value ELSE fallback

projectPointToSegment(point, start, end) ==
    LET dx == RSub(end.lng, start.lng)
        dy == RSub(end.lat, start.lat)
        result(lenSq, projX, projY) ==
            LET latDiff == RMul(RSub(point.lat, projY), metersPerUnitLat)
                lngDiff == RMul(RSub(point.lng, projX),
                                metersPerDegLng(RDiv(RAdd(point.lat, projY), Num(2))))
                tangent(len) == [lat |-> RDiv(dy, len), lng |-> RDiv(dx, len)]
            IN  [projection |-> [lat |-> projY, lng |-> projX],
                 distanceSq |-> RAdd(RMul(latDiff, latDiff), RMul(lngDiff, lngDiff)),
                 tangent |-> tangent(OrOne(MathSqrt(lenSq)))]
        clamped(t) == IF RLt(t, Num(0)) THEN Num(0) ELSE IF RGt(t, Num(1)) THEN Num(1) ELSE t
        withT(lenSq, t) == result(lenSq, RAdd(start.lng, RMul(t, dx)), RAdd(start.lat, RMul(t, dy)))
        withLenSq(lenSq) ==
            withT(lenSq,
                  IF RGt(lenSq, Num(0))
                  THEN clamped(RDiv(RAdd(RMul(RSub(point.lng, start.lng), dx),
                                         RMul(RSub(point.lat, start.lat), dy)), lenSq))
                  ELSE Num(0))
    IN  withLenSq(RAdd(RMul(dx, dx), RMul(dy, dy)))

RECURSIVE sumPoints(_, _)
sumPoints(polygon, i) ==
    LET add(acc, p) == [lat |-> RAdd(acc.lat, p.lat), lng |-> RAdd(acc.lng, p.lng)]
    IN  IF i = 0 THEN [lat |-> Num(0), lng |-> Num(0)]
        ELSE add(sumPoints(polygon, i - 1), polygon[i])

\* a centroid taken at the origin of the coordinates
polygonCentroidOrigin(polygon) == [lat |-> Num(0), lng |-> Num(0)]

polygonCentroid(polygon) ==
    LET mean(sum) == [lat |-> RDiv(sum.lat, Num(Len(polygon))),
                      lng |-> RDiv(sum.lng, Num(Len(polygon)))]
    IN  IF Len(polygon) = 0 THEN [lat |-> Num(0), lng |-> Num(0)]
        ELSE mean(sumPoints(polygon, Len(polygon)))

\* getBuildingPolygon, with getBuildingBounds and getRectanglePolygon
getBuildingPolygon(building, buildingFootprints) ==
    LET rectangle(lat, lng, latOffset, lngOffset) ==
            <<[lat |-> RSub(lat, latOffset), lng |-> RSub(lng, lngOffset)],
              [lat |-> RSub(lat, latOffset), lng |-> RAdd(lng, lngOffset)],
              [lat |-> RAdd(lat, latOffset), lng |-> RAdd(lng, lngOffset)],
              [lat |-> RAdd(lat, latOffset), lng |-> RSub(lng, lngOffset)]>>
        bounds(lat, lng, width, height) ==
            rectangle(lat, lng, RDiv(RDiv(height, Num(2)), metersPerUnitLat),
                      RDiv(RDiv(width, Num(2)), metersPerDegLng(lat)))
    IN  IF building.id \in DOMAIN buildingFootprints /\ Len(buildingFootprints[building.id]) >= 3
        THEN buildingFootprints[building.id]
        ELSE bounds(toNumber(building.lat, DEFAULT_CENTER.lat),
                    toNumber(building.lng, DEFAULT_CENTER.lng),
                    toNumber(building.width_meters, Num(20)),
                    toNumber(building.height_meters, Num(20)))

\* the inner loop of findNearestBuildingProjection, from edge i
RECURSIVE edgesLoop(_, _, _, _, _, _)
edgesLoop(point, building, polygon, centroid, i, best) ==
    LET outward(normal, dot) ==
            IF ~RLt(dot, Num(0)) /\ IsFinite(dot) THEN normal
            ELSE [lat |-> RNeg(normal.lat), lng |-> RNeg(normal.lng)]
        withNormal(projection, normal, fromCentroid) ==
            outward(normal, RAdd(RMul(normal.lat, fromCentroid.lat),
                                 RMul(normal.lng, fromCentroid.lng)))
        kept(projectionResult) ==
            IF best = Null \/ RLt(projectionResult.distanceSq, best.distanceSq)
            THEN [building |-> building,
                  projection |-> projectionResult.projection,
                  outwardNormal |->
                      withNormal(projectionResult.projection,
                                 [lat |-> RNeg(projectionResult.tangent.lng),
                                  lng |-> projectionResult.tangent.lat],
                                 [lat |-> RSub(projectionResult.projection.lat, centroid.lat),
                                  lng |-> RSub(projectionResult.projection.lng, centroid.lng)]),
                  tangent |-> projectionResult.tangent,
                  distanceSq |-> projectionResult.distanceSq]
            ELSE best
    IN  IF i > Len(polygon) THEN best
        ELSE edgesLoop(point, building, polygon, centroid, i + 1,
                       kept(projectPointToSegment(point, polygon[i],
                                                  polygon[(i % Len(polygon)) + 1])))

\* the outer loop of findNearestBuildingProjection, from building k
RECURSIVE buildingsLoop(_, _, _, _, _)
buildingsLoop(point, buildings, buildingFootprints, k, best) ==
    LET overPolygon(polygon) ==
            IF Len(polygon) < 2 THEN best
            ELSE edgesLoop(point, buildings[k], polygon, polygonCentroid(polygon), 1, best)
    IN  IF k > Len(buildings) THEN best
        ELSE buildingsLoop(point, buildings, buildingFootprints, k + 1,
                           overPolygon(getBuildingPolygon(buildings[k], buildingFootprints)))

\* a resolver that looks at the first building only
findNearestBuildingProjectionFirst(point, buildings, buildingFootprints) ==
    buildingsLoop(point, IF buildings = <<>> THEN <<>> ELSE <<buildings[1]>>, buildingFootprints, 1, Null)

findNearestBuildingProjection(point, buildings, buildingFootprints) ==
    buildingsLoop(point, buildings, buildingFootprints, 1, Null)

\* a resolver that accepts only distances below the radius
findNearestBuildingProjectionBelow(point, buildings, buildingFootprints, maxDistanceMeters) ==
    LET within(nearest) ==
            IF nearest # Null
               /\ RLt(nearest.distanceSq, RMul(maxDistanceMeters, maxDistanceMeters))
            THEN nearest ELSE Null
    IN  within(findNearestBuildingProjection(point, buildings, buildingFootprints))

findNearestBuildingProjectionWithin(point, buildings, buildingFootprints, maxDistanceMeters) ==
    LET within(nearest) ==
            IF nearest # Null
               /\ ~RGt(nearest.distanceSq, RMul(maxDistanceMeters, maxDistanceMeters))
               /\ IsFinite(nearest.distanceSq)
            THEN nearest ELSE Null
    IN  within(findNearestBuildingProjection(point, buildings, buildingFootprints))

\* the loop of findNearestMainlineProjection over the filtered mainlines
RECURSIVE mainlinesLoop(_, _, _, _)
mainlinesLoop(point, filteredMainlines, k, best) ==
    LET kept(mainline, result) ==
            IF best = Null \/ RLt(result.distanceSq, best.distanceSq)
            THEN [mainline |-> mainline, projection |-> result.projection,
                  distanceSq |-> result.distanceSq]
            ELSE best
        over(mainline) ==
            kept(mainline,
                 projectPointToSegment(point,
                     [lat |-> toNumber(mainline.start_lat, DEFAULT_CENTER.lat),
                      lng |-> toNumber(mainline.start_lng, DEFAULT_CENTER.lng)],
                     [lat |-> toNumber(mainline.end_lat, DEFAULT_CENTER.lat),
                      lng |-> toNumber(mainline.end_lng, DEFAULT_CENTER.lng)]))
    IN  IF k > Len(filteredMainlines) THEN best
        ELSE mainlinesLoop(point, filteredMainlines, k + 1, over(filteredMainlines[k]))

findNearestMainlineProjection(point, mainlines, systemType) ==
    LET returned(best) ==
            IF best = Null THEN Null
            ELSE [mainline |-> best.mainline, projection |-> best.projection]
        over(filteredMainlines) ==
            IF Len(filteredMainlines) = 0 THEN Null
            ELSE returned(mainlinesLoop(point, filteredMainlines, 1, Null))
    IN  over(SelectSeq(mainlines, LAMBDA m : m.system_type = systemType))

getSystemMainEndPoint(traces_, system) ==
    LET withPath == SelectSeq(traces_, LAMBDA t : t.system_type = system /\ Len(t.path_points) > 0)
        ofSystem == SelectSeq(traces_, LAMBDA t : t.system_type = system)
        last(main) == main.path_points[Len(main.path_points)]
    IN  IF Len(withPath) > 0 THEN last(withPath[1])
        ELSE IF Len(ofSystem) > 0
             THEN [lat |-> ofSystem[1].end_lat, lng |-> ofSystem[1].end_lng]
             ELSE Null

buildBranchPathAvoidBuilding(start, outwardNormalDeg, tangentDeg, end, offsetMeters, buildingPolygon) ==
    LET latRef == start.lat
        local == buildOrthogonalLocalPath(start, outwardNormalDeg, tangentDeg, end, offsetMeters)
        scaled(u, k) == [north |-> RMul(u.north, k), east |-> RMul(u.east, k)]
        plus(p, q) == [lat |-> RAdd(p.lat, q.lat), lng |-> RAdd(p.lng, q.lng)]
        RMin(S) == CHOOSE x \in S : \A y \in S : ~RLt(y, x)
        RMax(S) == CHOOSE x \in S : \A y \in S : ~RGt(y, x)
        atLeastZero(x) == IF RLt(x, Num(0)) THEN Num(0) ELSE x
        \* p3 and the return
        fromP3(p1, p2, p3) ==
            IF ~isFiniteLatLng(p3) THEN local ELSE <<start, p1, p2, p3, end>>
        \* the check of p2
        fromP2(tUnitM, tangentStep, p1, p2) ==
            IF ~isFiniteLatLng(p2) THEN local
            ELSE fromP3(p1, p2, plus(p2, toDegreeVec(scaled(tUnitM, tangentStep), p2.lat)))
        \* normalStep, tangentStep and p2
        fromSteps(outwardNormalM, tUnitM, p1, normalStep, tangentStep) ==
            fromP2(tUnitM, tangentStep, p1,
                   plus(p1, toDegreeVec(scaled(outwardNormalM, normalStep), p1.lat)))
        \* the bounding box of the polygon, in metres
        fromBox(outwardNormalM, tUnitM, p1, norths, easts) ==
            fromSteps(outwardNormalM, tUnitM, p1,
                      RAdd(RAdd(atLeastZero(RDiv(RSub(RMax(norths), RMin(norths)), Num(2))),
                                offsetMeters), Num(5)),
                      RAdd(atLeastZero(RDiv(RSub(RMax(easts), RMin(easts)), Num(2))), Num(5)))
        polyMeters(p1, refLatForMeters) ==
            [x \in 1 .. Len(buildingPolygon) |->
                toMeterVec([lat |-> RSub(buildingPolygon[x].lat, p1.lat),
                            lng |-> RSub(buildingPolygon[x].lng, p1.lng)], refLatForMeters)]
        fromPoly(outwardNormalM, tUnitM, p1, poly) ==
            fromBox(outwardNormalM, tUnitM, p1,
                    {poly[x].north : x \in 1 .. Len(poly)},
                    {poly[x].east : x \in 1 .. Len(poly)})
        \* the check of p1
        fromP1(outwardNormalM, tUnitM, p1) ==
            IF ~isFiniteLatLng(p1) THEN local
            ELSE fromPoly(outwardNormalM, tUnitM, p1,
                          polyMeters(p1, RDiv(RAdd(p1.lat, start.lat), Num(2))))
        fromNormal(outwardNormalM, tUnitM) ==
            fromP1(outwardNormalM, tUnitM,
                   plus(start, toDegreeVec(scaled(outwardNormalM, offsetMeters), latRef)))
    IN  IF Len(buildingPolygon) = 0 THEN local
        ELSE fromNormal(normalizeMeterVec(toMeterVec(outwardNormalDeg, latRef)),
                        normalizeMeterVec(toMeterVec(tangentDeg, latRef)))

(***************************************************************************)
(* App.tsx: handleMapClick in mode 'trace'                                 *)
(* ui holds the state the handler reads and sets, the console and the body *)
(* of the request sent to tracesApi.create.  An id that is undefined is 0. *)
(***************************************************************************)
SnapRadius == 20

SYSTEM_CONFIG(system) ==
    [doubleLine |-> system \in {"water", "heating"},
     spacingMeters |-> IF system = "water" THEN Rat(9, 5)
                       ELSE IF system = "heating" THEN Num(1) ELSE Num(0)]

\* most anchors of branches a behaviour collects
MaxAnchors == 2

\* building 1 has a footprint, a square of 2 by 2 grid units, drawn in either
\* direction; building 2 is drawn from its centre, width and height
ProjectBuildings ==
    LET b1 == [id |-> 1, lat |-> Num(1), lng |-> Num(1),
               width_meters |-> Num(1), height_meters |-> Num(2)]
        b2 == [id |-> 2, lat |-> Num(40), lng |-> Num(1),
               width_meters |-> Num(1), height_meters |-> Num(2)]
        square == <<Pt(0, 0), Pt(0, 2), Pt(2, 2), Pt(2, 0)>>
        reversed == <<Pt(2, 2), Pt(0, 2), Pt(0, 0), Pt(2, 0)>>
    IN  {[buildings |-> <<>>, buildingFootprints |-> <<>>],
         [buildings |-> <<b1>>, buildingFootprints |-> <<square>>],
         [buildings |-> <<b1, b2>>, buildingFootprints |-> <<reversed>>]}

\* mainlines: water along a parallel far to the north, sewerage near the
\* buildings, water along a meridian to the east
ProjectMainlines ==
    LET m(id, system, a, b) ==
            [id |-> id, system_type |-> system, start_lat |-> a.lat, start_lng |-> a.lng,
             end_lat |-> b.lat, end_lng |-> b.lng]
        m1 == m(1, "water", Pt(60, 0), Pt(60, 10))
        m2 == m(2, "sewerage", Pt(5, 0), Pt(5, 4))
        m3 == m(3, "water", Pt(0, 50), Pt(10, 50))
    IN  {<<>>, <<m2, m1, m3>>}

\* the routes loaded with the project: none, a sewerage route, and a sewerage
\* route stored without path points before it
ProjectTraces ==
    LET drawn == [system_type |-> "sewerage", path_points |-> <<Pt(-12, 0), Pt(-12, 12)>>,
                  end_lat |-> Num(-12), end_lng |-> Num(12)]
        bare == [system_type |-> "sewerage", path_points |-> <<>>,
                 end_lat |-> Num(7), end_lng |-> Num(7)]
    IN  {<<>>, <<drawn>>, <<bare, drawn>>}

\* where the user clicks: 20 m, 20.1 m and 21 m north of building 1, and
\* next to its north and east walls
ClickPoints ==
    {Pt(22, 1), [lat |-> Rat(221, 10), lng |-> Num(1)], Pt(23, 1), Pt(3, 1), Pt(1, 4)}

InitClick ==
    /\ \E system \in {"water", "sewerage"}, b \in ProjectBuildings,
          mainlines \in ProjectMainlines, traces_ \in ProjectTraces :
          ui = [mode |-> "trace", system |-> system,
                buildings |-> b.buildings, buildingFootprints |-> b.buildingFootprints,
                mainlines |-> mainlines, traces |-> traces_,
                clickStage |-> "start", tempStart |-> Null, pendingAttach |-> Null,
                branchAnchors |-> <<>>, console |-> <<>>, request |-> Null]
    /\ routeArgs = NoRoute
    /\ routePath = <<>>
    /\ offsetResult = NoOffset
    /\ system_distances = <<>>
    /\ ServerIdle
    /\ ValidatorIdle

\* logTrace
logged(console, event, data) == Append(console, [message |-> event, data |-> data])

anchorOf(snap) ==
    [buildingId |-> snap.building.id, projection |-> snap.projection,
     outwardNormal |-> snap.outwardNormal, tangent |-> snap.tangent]

\* the body given to tracesApi.create
createBody(startPoint, endPoint, pathPoints, buildingId, mainlineId) ==
    [systemType |-> ui.system,
     startLat |-> startPoint.lat, startLng |-> startPoint.lng,
     endLat |-> endPoint.lat, endLng |-> endPoint.lng,
     pathPoints |-> pathPoints,
     doubleLine |-> SYSTEM_CONFIG(ui.system).doubleLine,
     spacingMeters |-> SYSTEM_CONFIG(ui.system).spacingMeters,
     validateDistances |-> TRUE, buildingId |-> buildingId, mainlineId |-> mainlineId]

\* response.data: the stored route, as far as the handler reads it
responseData(body) ==
    [system_type |-> body.systemType, path_points |-> body.pathPoints,
     end_lat |-> body.endLat, end_lng |-> body.endLng]

\* the state after the request: the try block when the server stored the
\* route, the catch block when it answered with an error
afterCreate(body, created, console) ==
    [ui EXCEPT !.request = body,
               !.traces = IF created THEN Append(@, responseData(body)) ELSE @,
               !.tempStart = Null, !.clickStage = "start", !.pendingAttach = Null,
               !.branchAnchors = <<>>,
               !.console = console]

mainlineFor(point) ==
    IF ui.system \in {"water", "sewerage", "storm", "heating", "telecom"}
       /\ Len(ui.mainlines) > 0
    THEN findNearestMainlineProjection(point, ui.mainlines, ui.system)
    ELSE Null

\* a click at latlng while clickStage is 'start'; a behaviour sends one
\* request
handleMapClickStart(latlng, created) ==
    LET branch(snap, mainEnd, pathPoints, mainlineProjection) ==
            afterCreate(createBody(snap.projection, mainEnd, pathPoints, snap.building.id,
                                   IF mainlineProjection = Null THEN 0
                                   ELSE mainlineProjection.mainline.id),
                        created,
                        IF created
                        THEN logged(ui.console, "trace-branch-attached",
                                    [system |-> ui.system, startPoint |-> snap.projection,
                                     mainEnd |-> mainEnd, pathPoints |-> pathPoints])
                        ELSE logged(ui.console, "trace-branch-error", Null))
        snapped(snap) ==
            [ui EXCEPT !.tempStart = snap.projection,
                       !.pendingAttach = anchorOf(snap),
                       !.branchAnchors = IF ui.system \in {"sewerage", "storm"}
                                         THEN Append(@, anchorOf(snap)) ELSE @,
                       !.console = logged(ui.console, "trace-start-snap",
                                          [click |-> latlng, snap |-> snap]),
                       !.clickStage = "end"]
        raw == [ui EXCEPT !.tempStart = latlng,
                          !.pendingAttach = Null,
                          !.console = logged(ui.console, "trace-start-no-snap", [click |-> latlng]),
                          !.clickStage = "end"]
        with(snap, mainEnd) ==
            IF mainEnd # Null /\ snap # Null
            THEN branch(snap, mainEnd,
                        IF ui.system \in {"sewerage", "storm"}
                        THEN buildBranchPathAvoidBuilding(snap.projection, snap.outwardNormal,
                                snap.tangent, mainEnd, getAttachPerpMeters(ui.system),
                                getBuildingPolygon(snap.building, ui.buildingFootprints))
                        ELSE buildOrthogonalLocalPath(snap.projection, snap.outwardNormal,
                                snap.tangent, mainEnd, getAttachPerpMeters(ui.system)),
                        mainlineFor(mainEnd))
            ELSE IF snap # Null THEN snapped(snap)
            ELSE raw
    IN  /\ ui.mode = "trace"
        /\ ui.clickStage = "start"
        /\ ui.request = Null
        /\ ui' = with(findNearestBuildingProjectionWithin(latlng, ui.buildings,
                                                          ui.buildingFootprints, Num(SnapRadius)),
                      IF ui.system \in {"sewerage", "storm"}
                      THEN getSystemMainEndPoint(ui.traces, ui.system) ELSE Null)
        /\ UNCHANGED <<routeArgs, routePath, offsetResult, system_distances, serverVars,
                       validatorVars>>

\* a click at latlng while clickStage is 'end'; the project has no
\* transformer station
handleMapClickEnd(latlng, created) ==
    LET added(snap) ==
            [ui EXCEPT !.branchAnchors = Append(@, anchorOf(snap)),
                       !.console = logged(ui.console, "trace-branch-add",
                                          [click |-> latlng, snap |-> snap])]
        sent(startPoint, endPoint, pathPoints, buildingId, mainlineId, event) ==
            afterCreate(createBody(startPoint, endPoint, pathPoints, buildingId, mainlineId),
                        created,
                        logged(logged(ui.console, event,
                                      [system |-> ui.system, startPoint |-> startPoint,
                                       endPoint |-> endPoint, pathPoints |-> pathPoints]),
                               IF created THEN "trace-success" ELSE "trace-error",
                               [system |-> ui.system]))
        \* nearestAttach, the path and the request
        route(endPoint, mainlineId, nearestAttach) ==
            IF nearestAttach # Null
            THEN sent(nearestAttach.projection, endPoint,
                      buildOrthogonalLocalPath(nearestAttach.projection,
                          nearestAttach.outwardNormal, nearestAttach.tangent, endPoint,
                          getAttachPerpMeters(ui.system)),
                      nearestAttach.buildingId, mainlineId, "trace-path-snap")
            ELSE sent(ui.tempStart, endPoint, buildOrthogonalPath(ui.tempStart, endPoint),
                      0, mainlineId, "trace-path-nosnap")
        attach(found) == IF found # Null THEN anchorOf(found) ELSE Null
        toEnd(endPoint, mainlineId) ==
            route(endPoint, mainlineId,
                  IF ui.pendingAttach # Null THEN ui.pendingAttach
                  ELSE attach(findNearestBuildingProjection(ui.tempStart, ui.buildings,
                                                            ui.buildingFootprints)))
        onMainline(mainlineProjection) ==
            IF mainlineProjection # Null
            THEN toEnd(mainlineProjection.projection, mainlineProjection.mainline.id)
            ELSE toEnd(latlng, 0)
        onMainEnd(mainEnd) ==
            IF mainEnd # Null THEN toEnd(mainEnd, 0)
            ELSE IF Len(ui.mainlines) > 0
                 THEN onMainline(findNearestMainlineProjection(latlng, ui.mainlines, ui.system))
                 ELSE toEnd(latlng, 0)
        resolved ==
            IF ui.system \in {"sewerage", "storm"} /\ Len(ui.traces) > 0
            THEN onMainEnd(getSystemMainEndPoint(ui.traces, ui.system))
            ELSE onMainline(mainlineFor(latlng))
        with(snap) ==
            IF ui.system \in {"sewerage", "storm"} /\ snap # Null THEN added(snap)
            ELSE IF ui.tempStart # Null THEN resolved
            ELSE ui
        \* a behaviour collects at most MaxAnchors anchors
        bounded(next) == /\ Len(next.branchAnchors) <= MaxAnchors
                         /\ ui' = next
    IN  /\ ui.mode = "trace"
        /\ ui.clickStage = "end"
        /\ bounded(with(findNearestBuildingProjectionWithin(latlng, ui.buildings,
                                                           ui.buildingFootprints, Num(SnapRadius))))
        /\ UNCHANGED <<routeArgs, routePath, offsetResult, system_distances, serverVars,
                       validatorVars>>

NextClick ==
    \E latlng \in ClickPoints, created \in BOOLEAN :
        \/ handleMapClickStart(latlng, created)
        \/ handleMapClickEnd(latlng, created)

SpecClick == InitClick /\ [][NextClick]_vars

\* a session on a project of one building, without mainlines and routes: the
\* user clicks next to the north wall and 21 m from it, changes the system
\* type and presses Clear
InitSession ==
    /\ InitClick
    /\ Len(ui.buildings) = 1
    /\ ui.mainlines = <<>>
    /\ ui.traces = <<>>

\* the Clear button; a behaviour presses it once
handleClear ==
    /\ ui.mode = "trace"
    /\ \A x \in 1 .. Len(ui.console) : ui.console[x].message # "clear-all"
    /\ ui' = [ui EXCEPT !.traces = <<>>,
                         !.tempStart = Null,
                         !.clickStage = "start",
                         !.pendingAttach = Null,
                         !.console = logged(ui.console, "clear-all", Null)]
    /\ UNCHANGED <<routeArgs, routePath, offsetResult, system_distances, serverVars,
                   validatorVars>>

\* the system type is chosen in the select element
handleSystemChange(system) ==
    /\ ui.mode = "trace"
    /\ system # ui.system
    /\ ui' = [ui EXCEPT !.system = system]
    /\ UNCHANGED <<routeArgs, routePath, offsetResult, system_distances, serverVars,
                   validatorVars>>

NextSession ==
    \/ \E latlng \in {Pt(3, 1), Pt(23, 1)}, created \in BOOLEAN :
          \/ handleMapClickStart(latlng, created)
          \/ handleMapClickEnd(latlng, created)
    \/ handleClear
    \/ \E system \in {"water", "sewerage"} : handleSystemChange(system)

SpecSession == InitSession /\ [][NextSession]_vars

(***************************************************************************)
(* Properties of validateTraceDistance                                     *)
(***************************************************************************)
Segments(path) == 1 .. (Len(path) - 1)

\* existing route k is of another system type than the candidate
OtherSystem(k) == existingTraces[k].system # newTrace.system

RuleFor(k) == getMinDistance(system_distances, newTrace.system, existingTraces[k].system)

\* existing route k is of another system type and the pair has a non-zero rule
Ruled(k) ==
    /\ OtherSystem(k)
    /\ LET rows == distanceRows(system_distances, newTrace.system, existingTraces[k].system)
       IN  Len(rows) > 0 /\ rows[1].min_distance_cm # 0

Existing == 1 .. Len(existingTraces)

ErrorSet(errors) == {errors[x] : x \in 1 .. Len(errors)}

\* C5: no violation is ever reported against an existing route of the
\* candidate's own system type, however close: every message names two
\* different systems, one of them that of an existing route of another type;
\* the same-type routes add nothing to the result; and when every existing
\* route is of the candidate's type the list is empty.
SameSystemNeverReported ==
    validation.called =>
        /\ \A m \in ErrorSet(validation.errors) :
              /\ m.first # m.second
              /\ \E k \in Existing :
                    /\ OtherSystem(k)
                    /\ {m.first, m.second} = {newTrace.system, existingTraces[k].system}
        /\ validation.errors =
              validateTraceDistance(system_distances, newTrace,
                  SelectSeq(existingTraces, LAMBDA e : e.system # newTrace.system)).errors
        /\ (\A k \in Existing : ~OtherSystem(k)) => validation.errors = <<>>

\* C5 witness: a validated candidate with a stored route of its own system
\* type lying on the very same path
SameSystemCoincident ==
    /\ validation.called
    /\ Len(newTrace.path) >= 2
    /\ \E k \in Existing :
          /\ existingTraces[k].system = newTrace.system
          /\ existingTraces[k].path = newTrace.path

\* C6: a pair of system types with no row, or with a zero rule, yields no
\* violation: every message is about a pair that has a non-zero rule, the
\* routes without one add nothing to the result, and when no existing route
\* has a non-zero rule with the candidate the list is empty.
NoRuleNoViolation ==
    validation.called =>
        /\ \A m \in ErrorSet(validation.errors) :
              \E k \in Existing :
                  /\ Ruled(k)
                  /\ {m.first, m.second} = {newTrace.system, existingTraces[k].system}
                  /\ m.min = RuleFor(k)
        /\ validation.errors =
              validateTraceDistance(system_distances, newTrace,
                  SelectSeq(existingTraces, LAMBDA e :
                      LET rows == distanceRows(system_distances, newTrace.system, e.system)
                      IN  Len(rows) > 0 /\ rows[1].min_distance_cm # 0)).errors
        /\ (\A k \in Existing : ~Ruled(k)) => validation.errors = <<>>

\* C6 witness: a validated candidate lying on the very path of two stored
\* routes of other system types, one with no row in the table and one with a
\* zero rule
UnruledCoincident ==
    /\ validation.called
    /\ Len(newTrace.path) >= 2
    /\ \E k \in Existing :
          /\ OtherSystem(k)
          /\ distanceRows(system_distances, newTrace.system, existingTraces[k].system) = <<>>
          /\ existingTraces[k].path = newTrace.path
    /\ \E k \in Existing :
          /\ OtherSystem(k)
          /\ distanceRows(system_distances, newTrace.system, existingTraces[k].system) # <<>>
          /\ RIsZero(RuleFor(k))
    /\ validation.errors = <<>>

\* the measurements of the validator that are below the rule: existing route
\* k, candidate segment i, existing segment j, w = 1 for dist and 2 for dist2
Below ==
    {q \in UNION {{<<k, i, j, w>> : i \in Segments(newTrace.path),
                                    j \in Segments(existingTraces[k].path),
                                    w \in {1, 2}} : k \in {x \in Existing : Ruled(x)}} :
        distLess(IF q[4] = 1 THEN measureDist(newTrace, existingTraces[q[1]], q[2], q[3])
                             ELSE measureDist2(newTrace, existingTraces[q[1]], q[2], q[3]),
                 RuleFor(q[1]))}

\* the segment pairs with a measured distance below the rule
OffendingPairs == {<<q[1], q[2], q[3]>> : q \in Below}

MessageOf(q) ==
    LET ex == existingTraces[q[1]]
    IN  IF q[4] = 1
        THEN message(newTrace.system, ex.system, measureDist(newTrace, ex, q[2], q[3]), RuleFor(q[1]))
        ELSE message(ex.system, newTrace.system, measureDist2(newTrace, ex, q[2], q[3]), RuleFor(q[1]))

\* C7: exactly one message for each segment pair whose measured distance is
\* below the rule, and none for the others
OneMessagePerPair ==
    validation.called => Len(validation.errors) = Cardinality(OffendingPairs)

\* the cross product of a - o and b - o
Cross(o, a, b) ==
    RSub(RMul(RSub(a.lat, o.lat), RSub(b.lng, o.lng)),
         RMul(RSub(a.lng, o.lng), RSub(b.lat, o.lat)))

Opposite(x, y) == (RLt(x, Num(0)) /\ RGt(y, Num(0))) \/ (RGt(x, Num(0)) /\ RLt(y, Num(0)))

\* segments a-b and c-d cross at a point interior to both
Crossing(a, b, c, d) ==
    /\ Opposite(Cross(a, b, c), Cross(a, b, d))
    /\ Opposite(Cross(c, d, a), Cross(c, d, b))

CrossingPairs ==
    {q \in UNION {{<<k, i, j>> : i \in Segments(newTrace.path),
                                 j \in Segments(existingTraces[k].path)} :
                  k \in {x \in Existing : Ruled(x)}} :
        Crossing(newTrace.path[q[2]], newTrace.path[q[2] + 1],
                 existingTraces[q[1]].path[q[3]], existingTraces[q[1]].path[q[3] + 1])}

\* C8: a candidate segment and a segment of an existing route of another
\* system type with a non-zero rule that cross each other are reported, with
\* a measured distance of 0
CrossingReported ==
    validation.called =>
        \A q \in CrossingPairs :
            \E m \in ErrorSet(validation.errors) :
                /\ {m.first, m.second} = {newTrace.system, existingTraces[q[1]].system}
                /\ m.dist = 0

\* C9: the result lists every measurement below the rule, of every existing
\* route of another system type with a non-zero rule, and valid is TRUE exactly
\* when the list is empty
AllViolationsReported ==
    validation.called =>
        LET below == Below
        IN  /\ Len(validation.errors) = Cardinality(below)
            /\ ErrorSet(validation.errors) = {MessageOf(q) : q \in below}
            /\ validation.valid <=> (validation.errors = <<>>)

\* C9 witness: a result with violations against two different existing routes
\* and against two different segments of one of them
SeveralViolations ==
    /\ validation.called
    /\ ~validation.valid
    /\ \E q1, q2, q3 \in Below :
          /\ q1[1] # q2[1]
          /\ q3[1] = q1[1]
          /\ q3[3] # q1[3]

\* C10: for every segment pair, validating the candidate against existing
\* route k and validating route k against the candidate measure the same set
\* of distances, and the two calls report the same messages
SymmetricMeasurements ==
    reverse.called =>
        LET ex == existingTraces[reverse.k]
        IN  /\ \A i \in Segments(newTrace.path), j \in Segments(ex.path) :
                  {measureDist(newTrace, ex, i, j), measureDist2(newTrace, ex, i, j)}
                    = {measureDist(ex, newTrace, j, i), measureDist2(ex, newTrace, j, i)}
            /\ Len(existingTraces) = 1 =>
                  /\ ErrorSet(reverse.errors) = ErrorSet(validation.errors)
                  /\ Len(reverse.errors) = Len(validation.errors)

\* C10 witness: both calls made for two routes of different system types with
\* a non-zero rule, the two measurements of some pair being different and one
\* of them below the rule
SymmetricWitness ==
    /\ reverse.called
    /\ Len(existingTraces) = 1
    /\ Ruled(1)
    /\ reverse.errors # <<>>
    /\ \E i \in Segments(newTrace.path), j \in Segments(existingTraces[1].path) :
          measureDist(newTrace, existingTraces[1], i, j) # measureDist2(newTrace, existingTraces[1], i, j)

\* C20: the lookup gives the same minimum for a pair of different system
\* types in either order, whatever rows the table holds, rows for both orders
\* with different values included
LookupSymmetric ==
    \A a \in SystemType : \A b \in SystemType \ {a} :
        getMinDistance(system_distances, a, b) = getMinDistance(system_distances, b, a)

\* C20 witness: a validation of a water candidate against a sewerage route,
\* under a table that holds the pair in both orders with different values
BothOrdersStored ==
    /\ validation.called
    /\ newTrace.system = "water"
    /\ \E k \in Existing : existingTraces[k].system = "sewerage"
    /\ \E x, y \in 1 .. Len(system_distances) :
          /\ system_distances[x].system_type_1 = system_distances[y].system_type_2
          /\ system_distances[x].system_type_2 = system_distances[y].system_type_1
          /\ {system_distances[x].system_type_1, system_distances[x].system_type_2}
                = {"water", "sewerage"}
          /\ system_distances[x].min_distance_cm # system_distances[y].min_distance_cm

(***************************************************************************)
(* Properties of the path builders                                         *)
(***************************************************************************)
\* the direction of segment i of the returned path, in the metre frame of the
\* start point
SegmentM(i) ==
    toMeterVec([lat |-> RSub(routePath[i + 1].lat, routePath[i].lat),
                lng |-> RSub(routePath[i + 1].lng, routePath[i].lng)],
               routeArgs.start.lat)

NonZeroM(v) == ~RIsZero(v.north) \/ ~RIsZero(v.east)

\* C1: for finite start and end with start # end, the attached builder (with
\* a non-zero tangent, any outward normal, either standoff) returns four
\* points and the elbow builder three, and the directions of every two
\* consecutive segments have dot product 0 in the metre frame.
ConsecutivePerpendicular ==
    ( /\ routePath # <<>>
      /\ isFiniteLatLng(routeArgs.start)
      /\ isFiniteLatLng(routeArgs.end)
      /\ routeArgs.start # routeArgs.end
      /\ routeArgs.kind = "attached" => routeArgs.tangent # Vec(0, 0) )
    =>
    /\ Len(routePath) = IF routeArgs.kind = "attached" THEN 4 ELSE 3
    /\ \A i \in 1 .. (Len(routePath) - 2) :
          RIsZero(dotM(SegmentM(i), SegmentM(i + 1)))

\* C1 witness: a four-point path built from an oblique wall whose outward
\* normal is neither along the wall normal nor on its side, with three
\* segments of non-zero length
ObliqueAttachedPath ==
    /\ Len(routePath) = 4
    /\ routeArgs.kind = "attached"
    /\ routeArgs.tangent = Vec(4, 5)
    /\ routeArgs.outwardNormal = Vec(0, -1)
    /\ \A i \in 1 .. 3 : NonZeroM(SegmentM(i))

\* C13: when the tangent or the outward normal given to the attached builder
\* is the zero vector, the builder returns the plain elbow
\* <<start, [start.lat, end.lng], end>>, as it does for a start or an end
\* that is not finite.
ZeroVectorFallsBack ==
    ( /\ routePath # <<>>
      /\ routeArgs.kind = "attached"
      /\ \/ routeArgs.tangent = Vec(0, 0)
         \/ routeArgs.outwardNormal = Vec(0, 0)
         \/ ~isFiniteLatLng(routeArgs.start)
         \/ ~isFiniteLatLng(routeArgs.end) )
    => routePath = buildOrthogonalPath(routeArgs.start, routeArgs.end)

\* C13: a path built from a zero tangent, with finite start and end
ZeroTangentBuilt ==
    /\ routePath # <<>>
    /\ routeArgs.kind = "attached"
    /\ routeArgs.tangent = Vec(0, 0)
    /\ isFiniteLatLng(routeArgs.start)
    /\ routeArgs.start # routeArgs.end

\* the square of the length of segment i of the returned path, in metres
SegmentLengthSq(i) == dotM(SegmentM(i), SegmentM(i))

\* C21: the first segment of an attached route, from the attachment point to
\* p1, is 3 m long for sewerage and 5 m long for every other system type
StubLength ==
    ( /\ routePath # <<>>
      /\ routeArgs.kind = "attached"
      /\ isFiniteLatLng(routeArgs.start)
      /\ isFiniteLatLng(routeArgs.end) )
    =>
    /\ Len(routePath) = 4
    /\ SegmentLengthSq(1) = IF routeArgs.system = "sewerage" THEN Num(9) ELSE Num(25)

\* C21: an attached sewerage route built from the zero tangent of a wall
\* whose two ends coincide
StubOfZeroTangent ==
    /\ Len(routePath) = 4
    /\ routeArgs.kind = "attached"
    /\ routeArgs.system = "sewerage"
    /\ routeArgs.tangent = Vec(0, 0)
    /\ routeArgs.outwardNormal = Vec(0, 0)

\* C24: for finite start and end and a non-zero tangent, the attached builder
\* returns four points, the first of them start and the last of them end
PathReachesEnd ==
    ( /\ routePath # <<>>
      /\ routeArgs.kind = "attached"
      /\ isFiniteLatLng(routeArgs.start)
      /\ isFiniteLatLng(routeArgs.end)
      /\ routeArgs.tangent # Vec(0, 0) )
    =>
    /\ Len(routePath) = 4
    /\ routePath[1] = routeArgs.start
    /\ routePath[4] = routeArgs.end

\* C24: a four-point path from a wall along a parallel whose destination
\* lies east of p1, in another latitude than the start
PathAcrossLatitudes ==
    /\ Len(routePath) = 4
    /\ routeArgs.kind = "attached"
    /\ routeArgs.tangent = Vec(0, 1)
    /\ routeArgs.outwardNormal = Vec(1, 0)
    /\ routeArgs.start = Pt(0, 0)
    /\ routeArgs.end = Pt(GridMax, GridMax)

(***************************************************************************)
(* Properties of createTrace and of the handler                            *)
(***************************************************************************)
Rows(table) == {table[x] : x \in 1 .. Len(table)}

\* the route of request p as the validator of another call reads it
RouteOf(p) == [system |-> req[p].systemType, path |-> req[p].pathPoints]

\* the call of request p has committed its row
Stored(p) == tx[p].result = "returned"

\* C2: the check runs before the route is committed, its violations are
\* given to the caller, and a route with violations is stored only after the
\* caller, having been given them, decides so: while the request has no
\* response, a route whose check found violations is not stored.
PersistedOnlyByDecision ==
    \A p \in Clients :
        (Stored(p) /\ tx[p].validationErrors # <<>>) => response[p].status # 0

\* the routes of p and q are of different system types and closer than their
\* rule
TooClose(p, q) ==
    /\ req[p].projectId = req[q].projectId
    /\ req[p].systemType # req[q].systemType
    /\ \E i \in Segments(RouteOf(p).path), j \in Segments(RouteOf(q).path) :
          LET rule == getMinDistance(system_distances, req[p].systemType, req[q].systemType)
          IN  \/ distLess(measureDist(RouteOf(p), RouteOf(q), i, j), rule)
              \/ distLess(measureDist2(RouteOf(p), RouteOf(q), i, j), rule)

\* C3: a call that validated and committed with an empty list, for a route
\* too close to the route another call has committed, read a snapshot that
\* does not contain that route; nothing orders the two transactions.
CleanCommitMissedOther ==
    \A p \in Clients : \A q \in Clients \ {p} :
        ( /\ Stored(p) /\ Stored(q)
          /\ req[p].validateDistances
          /\ TooClose(p, q)
          /\ tx[p].validationErrors = <<>> )
        => RouteOf(q) \notin Rows(tx[p].existing)

\* C3 witness: two calls on one project, both validating, for routes of
\* different system types closer than their rule, have both committed with
\* an empty list, neither snapshot containing the other route
BothCommitClean ==
    \E p \in Clients : \E q \in Clients \ {p} :
        /\ Stored(p) /\ Stored(q)
        /\ req[p].validateDistances /\ req[q].validateDistances
        /\ TooClose(p, q)
        /\ tx[p].validationErrors = <<>> /\ tx[q].validationErrors = <<>>
        /\ RouteOf(q) \notin Rows(tx[p].existing)
        /\ RouteOf(p) \notin Rows(tx[q].existing)
        /\ tx[p].pending[1] \in Rows(traces) /\ tx[q].pending[1] \in Rows(traces)

\* C4: a call that returns has sent BEGIN, the SELECT when it validates, the
\* INSERT and COMMIT on one client and its row is stored; a call that threw
\* inside the try block has ROLLBACK as its last statement, no COMMIT, and
\* no row of it is stored; the stored routes are the seed rows and one row
\* for each call that returned; a call that threw is answered 500; the
\* client is released when the call has ended.
TransactionAtomic ==
    /\ \A p \in Clients :
          /\ Stored(p) =>
                /\ tx[p].stmts = IF req[p].validateDistances
                                 THEN <<"BEGIN", "SELECT", "INSERT", "COMMIT">>
                                 ELSE <<"BEGIN", "INSERT", "COMMIT">>
                /\ Len(tx[p].pending) = 1
                /\ tx[p].pending[1] \in Rows(traces)
          /\ (tx[p].result = "threw" /\ tx[p].stmts # <<>>) =>
                /\ tx[p].stmts[Len(tx[p].stmts)] = "ROLLBACK"
                /\ "COMMIT" \notin Rows(tx[p].stmts)
                /\ tx[p].pending = <<>>
          /\ (tx[p].result = "none" /\ tx[p].pending # <<>>) =>
                tx[p].pending[1] \notin Rows(traces)
          /\ (pc[p] = "done" /\ tx[p].result = "threw") => response[p].status = 500
          /\ pc[p] = "done" => ~tx[p].held
    /\ Len(traces) = Len(SeedTraces) + Cardinality({p \in Clients : Stored(p)})
    /\ \A x \in 1 .. Len(SeedTraces) : traces[x] = SeedTraces[x]
    /\ poolFree = PoolSize - Cardinality({p \in Clients : tx[p].held})

\* C4 witness: a call threw after its INSERT, was rolled back, answered 500
\* and released its client, while another call returned
RolledBackAfterInsert ==
    \E p \in Clients : \E q \in Clients \ {p} :
        /\ pc[p] = "done"
        /\ tx[p].result = "threw"
        /\ "INSERT" \in Rows(tx[p].stmts)
        /\ response[p].status = 500
        /\ ~tx[p].held
        /\ Stored(q)

\* the rows of the table that carry the id of the row call p inserted
RowsOf(p) == {x \in 1 .. Len(traces) : traces[x].id = tx[p].pending[1].id}

\* C25: a call whose statements all succeeded has stored exactly one row,
\* with or without violations; its request is answered 400 with the
\* violations and the stored row exactly when the list is not empty, 200 with
\* the row exactly when it is empty; without validateDistances no SELECT is
\* sent and the list is empty.
StoredWhateverTheCheck ==
    \A p \in Clients :
        /\ Stored(p) =>
              /\ Len(tx[p].pending) = 1
              /\ Cardinality(RowsOf(p)) = 1
              /\ tx[p].pending[1] \in Rows(traces)
        /\ ~req[p].validateDistances =>
              "SELECT" \notin Rows(tx[p].stmts) /\ tx[p].validationErrors = <<>>
        /\ (pc[p] = "done" /\ tx[p].called) =>
              /\ ( /\ response[p].status = 400
                    /\ response[p].error = "Distance validation failed" )
                  <=> (Stored(p) /\ tx[p].validationErrors # <<>>)
              /\ response[p].status = 200 <=> (Stored(p) /\ tx[p].validationErrors = <<>>)
              /\ response[p].status = 500 <=> ~Stored(p)
              /\ Stored(p) =>
                    /\ response[p].validationErrors = tx[p].validationErrors
                    /\ response[p].trace = tx[p].pending

\* C25 witness: a validated request was answered 400 with its violations
\* against the route of a request that was not validated and answered 200;
\* both rows are stored
RefusedYetStored ==
    \E p \in Clients : \E q \in Clients \ {p} :
        /\ pc[p] = "done" /\ pc[q] = "done"
        /\ response[p].status = 400
        /\ response[p].validationErrors # <<>>
        /\ response[p].trace[1] \in Rows(traces)
        /\ ~req[q].validateDistances
        /\ response[q].status = 200
        /\ response[q].trace[1] \in Rows(traces)
        /\ TooClose(p, q)

\* C27: every call of createTrace that has been made comes to its end and
\* gives its connection back, however many calls are made at once
EveryCallCompletes ==
    \A p \in Clients : (pc[p] = "connect") ~> (pc[p] = "done" /\ ~tx[p].held)

\* C27: every connection of the pool is held by a call that waits in
\* getMinDistance for a free connection
AllWaitForConnection ==
    /\ pc # <<>>
    /\ \A p \in Clients : pc[p] = "lookup" /\ tx[p].held /\ req[p].validateDistances
    /\ poolFree = 0
    /\ Cardinality(Clients) = PoolSize

\* the row of request p is in the table / in the list of the application
Persisted(p) == tx[p].pending # <<>> /\ tx[p].pending[1] \in Rows(traces)
Listed(p) == tx[p].pending # <<>> /\ tx[p].pending[1] \in Rows(ui.traces)

\* C28: once the application has handled the answer to a request, its list
\* holds the route of the request exactly when the table holds it
ListedIffPersisted ==
    ui.mode = "app" => \A p \in ui.handled : Listed(p) <=> Persisted(p)

\* C28: the application has handled a 400 answer with violations; the route
\* is in the table and not in its list
PersistedNotListed ==
    /\ ui.mode = "app"
    /\ \E p \in ui.handled :
          /\ response[p].status = 400
          /\ ui.validationErrors = response[p].validationErrors
          /\ response[p].validationErrors # <<>>
          /\ Persisted(p)
          /\ ~Listed(p)

\* C18: every stored route has a path of at least 2 points, whether it was
\* stored by POST /api/traces or its path was replaced by updateTrace
StoredPathsHaveTwoPoints ==
    \A x \in 1 .. Len(traces) : Len(traces[x].path_points) >= 2

\* C18: a request with fewer than 2 points has been answered and updateTrace
\* has been called with fewer than 2 points for a stored row
ShortPathsSubmitted ==
    /\ \E p \in Clients : pc[p] = "done" /\ response[p].status = 200
                           /\ Len(req[p].pathPoints) < 2
    /\ updateResult.called
    /\ updateResult.status = "threw"

\* what a call updateTrace(traceId, pathPoints) may change of the table
UpdateFrame(traceId, pathPoints) ==
    /\ Len(traces') = Len(traces)
    /\ \A x \in 1 .. Len(traces) :
          /\ traces[x].id # traceId => traces'[x] = traces[x]
          /\ [traces'[x] EXCEPT !.path_points = traces[x].path_points] = traces[x]
          /\ traces'[x].min_angle_degrees = 90
          /\ (traces[x].id = traceId /\ pathPoints.given) =>
                traces'[x].path_points = pathPoints.value
    /\ ~pathPoints.given => traces' = traces
    /\ (\A x \in 1 .. Len(traces) : traces[x].id # traceId) =>
          traces' = traces /\ updateResult'.status = "null"

OffsetKeepsLength ==
    offsetResult.called =>
        /\ Len(offsetResult.path1) = Len(routeArgs.path)
        /\ Len(offsetResult.path2) = Len(routeArgs.path)
        /\ (Len(routeArgs.path) < 2 \/ RIsZero(routeArgs.offsetMeters)) =>
              /\ offsetResult.path1 = routeArgs.path
              /\ offsetResult.path2 = routeArgs.path

\* C16 witness: the paths of fewer than two points and a four-point path
\* with a repeated point have been offset, the latter to a different path
OffsetOfShortAndLong ==
    /\ offsetResult.called
    /\ \/ /\ Len(routeArgs.path) = 1
          /\ ~RIsZero(routeArgs.offsetMeters)
          /\ offsetResult.path1 = routeArgs.path
       \/ /\ Len(routeArgs.path) = 4
          /\ offsetResult.path1 # routeArgs.path
          /\ Len(offsetResult.path1) = 4

\* C17: for a path of at least 2 points and a number d, every vertex of the
\* path is the midpoint of its images under the offsets d and -d: the two
\* displacements are opposite
OffsetsMirror ==
    ( /\ offsetResult.called
      /\ Len(routeArgs.path) >= 2
      /\ IsFinite(routeArgs.offsetMeters) )
    =>
    \A i \in 1 .. Len(routeArgs.path) :
        /\ RDiv(RAdd(offsetResult.path1[i].lat, offsetResult.path2[i].lat), Num(2))
              = routeArgs.path[i].lat
        /\ RDiv(RAdd(offsetResult.path1[i].lng, offsetResult.path2[i].lng), Num(2))
              = routeArgs.path[i].lng

\* C17 witness: an elbow offset by a non-zero d, its corner displaced in
\* latitude and in longitude, to different sides in the two paths
CornerMirrored ==
    /\ offsetResult.called
    /\ Len(routeArgs.path) = 3
    /\ IsFinite(routeArgs.offsetMeters) /\ ~RIsZero(routeArgs.offsetMeters)
    /\ offsetResult.path1[2].lat # routeArgs.path[2].lat
    /\ offsetResult.path1[2].lng # routeArgs.path[2].lng
    /\ offsetResult.path1[2] # offsetResult.path2[2]

(***************************************************************************)
(* Properties of the resolvers and of handleMapClick                       *)
(***************************************************************************)
Entries == IF ui = NoUi THEN {} ELSE 1 .. Len(ui.console)

\* the walls of the project: a building with two consecutive vertices of its
\* polygon
Walls ==
    {<<b, i>> \in (1 .. Len(ui.buildings)) \X (1 .. 4) :
        i <= Len(getBuildingPolygon(ui.buildings[b], ui.buildingFootprints))}

\* the projection of point on a wall, with the square of its distance
OnWall(point, w) ==
    LET polygon == getBuildingPolygon(ui.buildings[w[1]], ui.buildingFootprints)
    IN  projectPointToSegment(point, polygon[w[2]], polygon[(w[2] % Len(polygon)) + 1])

RadiusSq == Num(SnapRadius * SnapRadius)

\* C11: the start click is resolved to an attachment exactly when the nearest
\* wall is at most 20 m away, 20 m included, and then to the projection on a
\* nearest wall; there is no attachment when every wall is farther away or
\* the project has no building
SnapWithinRadius ==
    \A x \in Entries :
        LET click == ui.console[x].data.click
            snap == ui.console[x].data.snap
        IN  /\ ui.console[x].message = "trace-start-snap" =>
                  /\ ~RGt(snap.distanceSq, RadiusSq)
                  /\ \A w \in Walls : ~RLt(OnWall(click, w).distanceSq, snap.distanceSq)
                  /\ \E w \in Walls :
                        /\ ui.buildings[w[1]] = snap.building
                        /\ OnWall(click, w).projection = snap.projection
                        /\ OnWall(click, w).distanceSq = snap.distanceSq
            /\ ui.console[x].message = "trace-start-no-snap" =>
                  \A w \in Walls : RGt(OnWall(click, w).distanceSq, RadiusSq)

\* C11 witness: a start click exactly 20 m from the nearest wall was
\* resolved to an attachment on it
SnapAtRadius ==
    \E x \in Entries :
        /\ ui.console[x].message = "trace-start-snap"
        /\ ui.console[x].data.snap.distanceSq = RadiusSq
        /\ ui.console[x].data.snap.projection = Pt(2, 1)

\* C12: a route created after a start click that was not resolved to an
\* attachment starts at the clicked point and carries no building
RawStartKept ==
    \A x \in Entries :
        ( /\ ui.console[x].message = "trace-start-no-snap"
          /\ x + 2 \in Entries
          /\ ui.console[x + 1].message \in {"trace-path-snap", "trace-path-nosnap"}
          /\ ui.console[x + 2].message = "trace-success" )
        =>
        /\ ui.request.startLat = ui.console[x].data.click.lat
        /\ ui.request.startLng = ui.console[x].data.click.lng
        /\ ui.request.pathPoints[1] = ui.console[x].data.click
        /\ ui.request.buildingId = 0

\* C12 witness: the start click was farther than 20 m from every wall of a
\* project with a building, and the end click created a route
FarStartRouted ==
    \E x \in Entries :
        /\ ui.console[x].message = "trace-start-no-snap"
        /\ Walls # {}
        /\ \A w \in Walls : RGt(OnWall(ui.console[x].data.click, w).distanceSq, RadiusSq)
        /\ x + 2 \in Entries
        /\ ui.console[x + 1].message = "trace-path-snap"
        /\ ui.console[x + 2].message = "trace-success"
        /\ ui.request # Null

\* the polygon of building b: its footprint when that has at least 3 points,
\* the rectangle around its anchor otherwise
Outline(b) ==
    LET g == ui.buildings[b]
        half == RDiv(RDiv(g.width_meters, Num(2)), metersPerDegLng(g.lat))
        south == RSub(g.lat, RDiv(g.height_meters, Num(2)))
        north == RAdd(g.lat, RDiv(g.height_meters, Num(2)))
    IN  IF g.id \in DOMAIN ui.buildingFootprints /\ Len(ui.buildingFootprints[g.id]) >= 3
        THEN ui.buildingFootprints[g.id]
        ELSE <<[lat |-> south, lng |-> RSub(g.lng, half)], [lat |-> south, lng |-> RAdd(g.lng, half)],
               [lat |-> north, lng |-> RAdd(g.lng, half)], [lat |-> north, lng |-> RSub(g.lng, half)]>>

\* the edges of the outlines, the closing edge among them
Edges == {<<b, i>> \in (1 .. Len(ui.buildings)) \X (1 .. 4) : i <= Len(Outline(b))}

OnEdge(point, e) ==
    projectPointToSegment(point, Outline(e[1])[e[2]], Outline(e[1])[(e[2] % Len(Outline(e[1]))) + 1])

\* point is resolved to projection on a nearest edge of all outlines
Closest(point, projection) ==
    \E e \in Edges :
        /\ OnEdge(point, e).projection = projection
        /\ \A o \in Edges : ~RLt(OnEdge(point, o).distanceSq, OnEdge(point, e).distanceSq)

\* C22: the attachment found for a point is its projection on an edge that
\* is at least as near as every edge of the polygon of every building: for
\* the start click within the radius, and for the start point the end click
\* resolves without a radius
GloballyClosest ==
    \A x \in Entries :
        /\ ui.console[x].message = "trace-start-snap" =>
              /\ Closest(ui.console[x].data.click, ui.console[x].data.snap.projection)
              /\ \A o \in Edges : ~RLt(OnEdge(ui.console[x].data.click, o).distanceSq,
                                        ui.console[x].data.snap.distanceSq)
        /\ ( /\ ui.console[x].message = "trace-start-no-snap"
              /\ x + 1 \in Entries
              /\ ui.console[x + 1].message = "trace-path-snap" ) =>
              Closest(ui.console[x].data.click, ui.console[x + 1].data.startPoint)

\* C22 witness: in a project of two buildings a click was resolved to the
\* closing edge of the footprint of building 1, and a click farther than the
\* radius from both to the rectangle of building 2
ClosestOfTwoBuildings ==
    \E x \in Entries :
        /\ Len(ui.buildings) = 2
        /\ \/ /\ ui.console[x].message = "trace-start-snap"
              /\ ui.console[x].data.click = Pt(3, 1)
              /\ ui.console[x].data.snap.projection = Pt(2, 1)
              /\ ui.console[x].data.snap.building.id = 1
           \/ /\ ui.console[x].message = "trace-path-snap"
              /\ ui.console[x].data.startPoint.lat = Num(39)

\* the mean of the vertices of the outline of the building of a snap
MeanVertex(snap) ==
    LET b == CHOOSE c \in 1 .. Len(ui.buildings) : ui.buildings[c] = snap.building
        n == Len(Outline(b))
    IN  [lat |-> RDiv(sumPoints(Outline(b), n).lat, Num(n)),
         lng |-> RDiv(sumPoints(Outline(b), n).lng, Num(n))]

\* C23: the outward normal of an attachment is perpendicular to its tangent
\* and does not point from the projection towards the mean of the vertices
NormalPointsOutward ==
    \A x \in Entries :
        ui.console[x].message = "trace-start-snap" =>
            LET snap == ui.console[x].data.snap
                centre == MeanVertex(snap)
            IN  /\ RIsZero(RAdd(RMul(snap.outwardNormal.lat, snap.tangent.lat),
                                RMul(snap.outwardNormal.lng, snap.tangent.lng)))
                /\ ~RLt(RAdd(RMul(snap.outwardNormal.lat, RSub(snap.projection.lat, centre.lat)),
                             RMul(snap.outwardNormal.lng, RSub(snap.projection.lng, centre.lng))),
                        Num(0))

\* C23 witness: an attachment whose normal was flipped: it is the tangent
\* turned the other way, and not the zero vector
FlippedNormal ==
    \E x \in Entries :
        /\ ui.console[x].message = "trace-start-snap"
        /\ ui.console[x].data.snap.outwardNormal =
              [lat |-> ui.console[x].data.snap.tangent.lng,
               lng |-> RNeg(ui.console[x].data.snap.tangent.lat)]
        /\ ui.console[x].data.snap.outwardNormal # Vec(0, 0)

\* the last request was answered with the stored route
RouteCreated ==
    /\ ui.request # Null
    /\ ui.console[Len(ui.console)].message \in {"trace-success", "trace-branch-attached"}

\* the routes of the system of the request that the list held when the request
\* was made
RoutesBefore ==
    SelectSeq(SubSeq(ui.traces, 1, Len(ui.traces) - 1), LAMBDA t : t.system_type = ui.request.systemType)

\* C29: a sewerage or storm route created by clicks while the list held a
\* route of its system type ends at the last path point of the first such
\* route of the list.
EndsAtMainRoute ==
    ( /\ ui.mode = "trace"
      /\ RouteCreated
      /\ ui.request.systemType \in {"sewerage", "storm"}
      /\ RoutesBefore # <<>> )
    => /\ Len(RoutesBefore[1].path_points) > 0
       /\ ui.request.endLat = RoutesBefore[1].path_points[Len(RoutesBefore[1].path_points)].lat
       /\ ui.request.endLng = RoutesBefore[1].path_points[Len(RoutesBefore[1].path_points)].lng

\* C29: a sewerage route was created while the first sewerage route of the
\* list had no path points: it ends at the last point of the second
EndsAtSecondRoute ==
    /\ ui.mode = "trace"
    /\ RouteCreated
    /\ ui.request.systemType = "sewerage"
    /\ Len(RoutesBefore) = 2
    /\ RoutesBefore[1].path_points = <<>>
    /\ ui.request.endLat = RoutesBefore[2].path_points[2].lat
    /\ ui.request.endLng = RoutesBefore[2].path_points[2].lng
    /\ ui.request.endLat # RoutesBefore[1].end_lat

\* C30: while the click stage is 'start' no anchor of a branch is kept and
\* tempStart and pendingAttach are null
StartStageIsClean ==
    (ui.mode = "trace" /\ ui.clickStage = "start") =>
        /\ ui.branchAnchors = <<>>
        /\ ui.tempStart = Null
        /\ ui.pendingAttach = Null

\* C30: Clear was pressed after a start click on a wall for sewerage: the
\* stage is 'start', tempStart and pendingAttach are null, the anchor stays
AnchorSurvivesClear ==
    /\ ui.mode = "trace"
    /\ ui.console # <<>>
    /\ ui.console[Len(ui.console)].message = "clear-all"
    /\ ui.clickStage = "start"
    /\ ui.tempStart = Null
    /\ ui.pendingAttach = Null
    /\ ui.branchAnchors # <<>>

\* the branch created by a start click on a wall: five points
BranchSent ==
    /\ ui # NoUi
    /\ ui.request # Null
    /\ ui.console[Len(ui.console)].message = "trace-branch-attached"
    /\ Len(ui.request.pathPoints) = 5
    /\ ui.request.buildingId # 0

\* the point k quarters along segment i of the branch
Along(i, k) ==
    LET a == ui.request.pathPoints[i]
        b == ui.request.pathPoints[i + 1]
    IN  [lat |-> RAdd(a.lat, RMul(Rat(k, 4), RSub(b.lat, a.lat))),
         lng |-> RAdd(a.lng, RMul(Rat(k, 4), RSub(b.lng, a.lng)))]

\* p is strictly inside the rectangle the polygon spans
InsideFootprint(p, polygon) ==
    \E a \in 1 .. Len(polygon), b \in 1 .. Len(polygon) :
        /\ RLt(polygon[a].lat, p.lat) /\ RLt(p.lat, polygon[b].lat)
        /\ RLt(polygon[a].lng, p.lng) /\ RLt(p.lng, polygon[b].lng)

\* C14: no segment of the five-point branch has a point (here: its quarter
\* points and its midpoint) inside the footprint of the building it starts
\* from
BranchAvoidsFootprint ==
    BranchSent =>
        \A b \in 1 .. Len(ui.buildings) :
            ui.buildings[b].id = ui.request.buildingId =>
                \A i \in 1 .. 4, k \in 1 .. 3 :
                    ~InsideFootprint(Along(i, k),
                                     getBuildingPolygon(ui.buildings[b], ui.buildingFootprints))

\* C14 witness: a five-point branch was created, from a point on the north wall
\* of building 1 to the end of the main route
BranchFromWall ==
    /\ BranchSent
    /\ ui.request.buildingId = 1
    /\ ui.request.pathPoints[1] = Pt(2, 1)
    /\ ui.request.pathPoints[5] = Pt(-12, 12)

\* the direction of segment i of the branch, in the metre frame of its start
BranchSegmentM(i) ==
    toMeterVec([lat |-> RSub(ui.request.pathPoints[i + 1].lat, ui.request.pathPoints[i].lat),
                lng |-> RSub(ui.request.pathPoints[i + 1].lng, ui.request.pathPoints[i].lng)],
               ui.request.pathPoints[1].lat)

\* C15: every two consecutive segments of the five-point branch are
\* perpendicular, at p1, p2 and p3
BranchRectilinear ==
    BranchSent => \A i \in 1 .. 3 : RIsZero(dotM(BranchSegmentM(i), BranchSegmentM(i + 1)))

\* C15 witness: a five-point branch with four segments of non-zero length
BranchOfFourLegs ==
    /\ BranchSent
    /\ \A i \in 1 .. 4 : NonZeroM(BranchSegmentM(i))

\* the mainlines of the system being drawn
OfSystem == {m \in 1 .. Len(ui.mainlines) : ui.mainlines[m].system_type = ui.system}

OnMainline(point, m) ==
    projectPointToSegment(point,
        [lat |-> ui.mainlines[m].start_lat, lng |-> ui.mainlines[m].start_lng],
        [lat |-> ui.mainlines[m].end_lat, lng |-> ui.mainlines[m].end_lng])

\* C19: once a route was sent, for every cursor the mainline resolver gives
\* the nearest point of the mainlines of the system being drawn, and null
\* when each of these is farther than the snap radius from the cursor
MainlineWithinRadius ==
    (ui # NoUi /\ ui.request # Null) =>
        \A cursor \in ClickPoints :
            LET r == findNearestMainlineProjection(cursor, ui.mainlines, ui.system)
            IN  /\ r # Null =>
                      /\ r.mainline.system_type = ui.system
                      /\ \E m \in OfSystem :
                            /\ ui.mainlines[m] = r.mainline
                            /\ OnMainline(cursor, m).projection = r.projection
                            /\ \A o \in OfSystem :
                                  ~RLt(OnMainline(cursor, o).distanceSq,
                                       OnMainline(cursor, m).distanceSq)
                /\ (\A m \in OfSystem : RGt(OnMainline(cursor, m).distanceSq, RadiusSq))
                      => r = Null

\* C19 witness: the end click created a route that ends on a mainline which is
\* farther than the snap radius from every point the user can click
FarMainlineTaken ==
    /\ ui # NoUi
    /\ ui.request # Null
    /\ ui.request.mainlineId # 0
    /\ Len(ui.console) >= 2
    /\ ui.console[Len(ui.console) - 1].message \in {"trace-path-snap", "trace-path-nosnap"}
    /\ ui.console[Len(ui.console)].message = "trace-success"
    /\ \A m \in OfSystem, cursor \in ClickPoints :
          RGt(OnMainline(cursor, m).distanceSq, RadiusSq)

====
